---- MODULE Spec2Model ----
(***************************************************************************)
(* A model of difftron: the unified-diff hunk parser, the LCOV parser,     *)
(* the change analyzer and the multi-suite health aggregator.              *)
(*                                                                         *)
(* Text is modelled as a sequence of tokens (a path "./a.go" is           *)
(* <<"./", "a.go">>), so that prefix tests and trims are computed and not  *)
(* assumed.  A diff line is modelled by its longest distinguished prefix  *)
(* (the only part of the text the parser inspects) and its payload.       *)
(***************************************************************************)
EXTENDS Integers, Sequences, FiniteSets, TLC

(***************************************************************************)
(* Strings as token sequences                                              *)
(***************************************************************************)
EmptyStr == <<>>
DevNull  == <<"/", "dev/null">>
FileA    == <<"a.go">>
FileB    == <<"b.go">>

HasPrefixTok(s, tok) == Len(s) > 0 /\ s[1] = tok

\* strings.TrimPrefix(s, tok) for a one-token prefix
TrimPrefixTok(s, tok) == IF HasPrefixTok(s, tok) THEN Tail(s) ELSE s

(***************************************************************************)
(* Diff lines                                                              *)
(*   text:    the longest of the prefixes the parser tests that the line   *)
(*            starts with ("other" when it starts with none of them)       *)
(*   path:    what follows "--- a/" or "+++ b/"                            *)
(*   fields:  for "@@" lines, whether strings.Fields gives >= 3 fields     *)
(*   plus:    for "@@" lines, whether the third field starts with "+"      *)
(*   numeric: for "@@" lines, whether the start field parses as a number   *)
(*   start:   for "@@" lines, that number                                 *)
(*   meaning: what the line is in the unified diff format                  *)
(***************************************************************************)
MaxDiffLines == 6

HunkStarts == {1, 5}
PrePaths   == {FileA}
PostPaths  == {FileA, FileB, DevNull}

Line(text, path, fields, plus, numeric, start, meaning) ==
    [text |-> text, path |-> path, fields |-> fields, plus |-> plus,
     numeric |-> numeric, start |-> start, meaning |-> meaning]

PreLine(p)     == Line("--- a/", p, FALSE, FALSE, FALSE, 0, "pre")
PreNullLine    == Line("---", DevNull, FALSE, FALSE, FALSE, 0, "prenull")
PostLine(p)    == Line("+++ b/", p, FALSE, FALSE, FALSE, 0, "post")
PostNullLine   == Line("+++", DevNull, FALSE, FALSE, FALSE, 0, "postnull")
HunkLine(s)    == Line("@@", EmptyStr, TRUE, TRUE, TRUE, s, "hunk")
HunkBadLine    == Line("@@", EmptyStr, TRUE, TRUE, FALSE, 0, "badhunk")
\* a header whose post-image start is a number and whose old range or a line
\* count is not, such as "@@ -1,x +5,2 @@"
HunkBadOtherLine(s) == Line("@@", EmptyStr, TRUE, TRUE, TRUE, s, "badhunk")
HunkShortLine  == Line("@@", EmptyStr, FALSE, FALSE, FALSE, 0, "hunk")
HunkNoPlusLine == Line("@@", EmptyStr, TRUE, FALSE, FALSE, 0, "hunk")
AddedLine      == Line("+", EmptyStr, FALSE, FALSE, FALSE, 0, "added")
\* an added line whose own text begins with "++", such as "+" followed by "++i;"
AddedPlusPlusLine == Line("+++", EmptyStr, FALSE, FALSE, FALSE, 0, "added")
RemovedLine    == Line("-", EmptyStr, FALSE, FALSE, FALSE, 0, "removed")
ContextLine    == Line(" ", EmptyStr, FALSE, FALSE, FALSE, 0, "context")
\* "diff --git ...", "index ...", "\ No newline at end of file", an empty line
OtherLine      == Line("other", EmptyStr, FALSE, FALSE, FALSE, 0, "context")

MarkerLines == {PreLine(p) : p \in PrePaths} \cup {PreNullLine}
               \cup {PostLine(p) : p \in PostPaths} \cup {PostNullLine}
HeaderLines == {HunkLine(s) : s \in HunkStarts}
               \cup {HunkBadLine, HunkBadOtherLine(5), HunkShortLine, HunkNoPlusLine}
BodyLines   == {AddedLine, AddedPlusPlusLine, RemovedLine, ContextLine, OtherLine}
DiffLines   == MarkerLines \cup HeaderLines \cup BodyLines

\* strings.HasPrefix(line, prefix), by the line's longest distinguished prefix
HasPrefix(line, prefix) ==
    CASE prefix = "--- a/" -> line.text = "--- a/"
      [] prefix = "+++ b/" -> line.text = "+++ b/"
      [] prefix = "@@"     -> line.text = "@@"
      [] prefix = "+++"    -> line.text \in {"+++", "+++ b/"}
      [] prefix = "---"    -> line.text \in {"---", "--- a/"}
      [] prefix = "+"      -> line.text \in {"+", "+++", "+++ b/"}
      [] prefix = "-"      -> line.text \in {"-", "---", "--- a/"}
      [] prefix = " "      -> line.text = " "
      [] OTHER             -> FALSE

VARIABLES
    \* ParseGitDiff
    pc,                  \* "scan" while the scanner loop runs, then "done" or "error"
    ChangedLines,        \* result.ChangedLines: file -> set of line numbers
    AddedLines,          \* result.AddedLines
    RemovedLines,        \* result.RemovedLines
    NewFiles,            \* result.NewFiles: set of files mapped to true
    ModifiedFiles,       \* result.ModifiedFiles
    currentFile,
    currentFileOldPath,
    currentLine,
    scanned,             \* number of lines scanned so far
    \* history of the scan, read by the properties only
    ownPre,              \* pre-image marker of the file block being read: "path",
                         \* "null", "none", or "bad" when the post-image marker does
                         \* not follow it at once
    lastCommit,          \* the last file committed, with its block's pre-image marker
    diffSeen,            \* what was read: a hunk header with a non-numeric field,
                         \* and per committed file the kinds of its hunk lines
    inHunk,              \* a well-formed hunk header was the last header or marker
    hunkStart,           \* its post-image start number
    hunkCount,           \* lines since then that are not removed lines
    hunkBase,            \* the current file's changed lines when the hunk began
    hunkAdded,           \* the numbers S + k - 1 of the hunk's added lines
    \* ParseLCOV
    lcovPc,              \* "scan" while the scanner loop runs, then "done"
    lcovReport,          \* report.FileCoverage: path -> CoverageData
    lcovCurrentFile,     \* currentFile; currentCoverage is lcovReport[lcovCurrentFile]
    lcovScanned,         \* number of lines scanned so far
    \* the path normalizer
    repoRootCache,       \* the memoized repository root ("" when git gave none)
    oncePc,              \* per goroutine: where it is in getRepoRoot
    onceDone,            \* repoRootCacheOnce: its done flag
    onceMutex,           \* repoRootCacheOnce: the holder of its mutex
    gitRuns,             \* how often the git lookup was executed
    observed,            \* per goroutine: what its last getRepoRoot returned
    onceCalls,           \* per goroutine: how many calls it has made
    \* AnalyzeWithBaseline
    anPc,                \* "ready", "done" once analysed, "checked" after MeetsThreshold
    coverageReport,      \* the current coverage report (or nil)
    baselineReport,      \* the baseline coverage report (or nil)
    result,              \* the *AnalysisResult returned (or nil)
    anErr,               \* the error returned ("" for none)
    meets,               \* the last MeetsThreshold call: threshold and answer
    \* the health aggregator
    hPc,                 \* "ready", then "aggregated" or "done"
    testReports,         \* the suites: a list of TestCoverageReport
    baselineReports,     \* the baseline suites
    hThreshold,
    aggregated,          \* the report AggregateCoverage returned
    healthReport,        \* the *HealthReport AnalyzeHealth returned (or nil)
    hErr,                \* the error AnalyzeHealth returned ("" for none)
    \* DetectCoverageFormat
    detPc,               \* "ready" before the call, then "done"
    detFile,             \* the file it is called on
    detFormat,           \* the format it returned ("" with an error)
    detErr,              \* whether it returned an error
    \* ParseCobertura
    cobPc,               \* "scan" while the class loop runs, then "done"
    cobSources,          \* sourcePaths
    cobReport,           \* report.FileCoverage: path -> CoverageData
    cobClasses,          \* number of class elements processed so far
    \* history of the parse, read by the properties only
    cobListed,           \* per path: the line numbers listed at each level
    cobCounted,          \* per path and line: how often it was added to
                         \* TotalLines and to CoveredLines
    \* loadCoverageReport
    loadPc,              \* "ready" before the call, then "done"
    loadFile,            \* the artifact it is called on
    loadReport,          \* the *health.TestCoverageReport it returned (or nil)
    loadErr,             \* whether it returned an error
    loadTried,           \* history: the parsers it ran, in order
    \* the health command
    cmdPc,               \* "start", "analyze" (AnalyzeHealth is called), "main"
                         \* (runHealth has returned to main), "exit"
    cmdFlags,            \* the command's flags
    cmdEnv,              \* what git diff and the output file do
    cmdErr,              \* whether runHealth returned an error
    exitCode,            \* the process exit code, -1 while it runs
    \* parseGoCoverageText
    goPc,                \* "ready" before the call, then "done"
    goFile,              \* the profile it is called on
    goReport,            \* the report it returned (or nil)
    goErr,               \* whether it returned an error
    \* the ci and analyze commands
    gatePc,              \* "ready" before the run, then "exit"
    gateRun,             \* the command, its flags and its environment
    gateExit             \* the process exit code, -1 while it runs

diffVars == <<pc, ChangedLines, AddedLines, RemovedLines, NewFiles, ModifiedFiles,
              currentFile, currentFileOldPath, currentLine, scanned>>
histVars == <<ownPre, lastCommit, diffSeen, inHunk, hunkStart, hunkCount, hunkBase, hunkAdded>>
lcovVars == <<lcovPc, lcovReport, lcovCurrentFile, lcovScanned>>
pathVars == <<repoRootCache, oncePc, onceDone, onceMutex, gitRuns, observed, onceCalls>>
detVars  == <<detPc, detFile, detFormat, detErr>>
cobVars  == <<cobPc, cobSources, cobReport, cobClasses, cobListed, cobCounted>>
loadVars == <<loadPc, loadFile, loadReport, loadErr, loadTried>>
cmdVars  == <<cmdPc, cmdFlags, cmdEnv, cmdErr, exitCode>>
goVars   == <<goPc, goFile, goReport, goErr>>
gateVars == <<gatePc, gateRun, gateExit>>
ingestVars == <<detVars, cobVars, loadVars, cmdVars, goVars, gateVars>>
anVars   == <<anPc, coverageReport, baselineReport, result, anErr, meets>>
hVars    == <<hPc, testReports, baselineReports, hThreshold, aggregated, healthReport, hErr>>
vars == <<diffVars, histVars, lcovVars, pathVars, anVars, hVars, ingestVars>>

\* what each component leaves alone
diffOthers == <<lcovVars, pathVars, anVars, hVars, ingestVars>>
lcovOthers == <<diffVars, histVars, pathVars, anVars, hVars, ingestVars>>
anOthers   == <<diffVars, histVars, lcovVars, pathVars, hVars, ingestVars>>
hOthers    == <<diffVars, histVars, lcovVars, pathVars, anVars, ingestVars>>
onceOthers == <<diffVars, histVars, lcovVars, anVars, hVars, ingestVars>>
coreVars   == <<diffVars, histVars, lcovVars, pathVars, anVars, hVars>>
detOthers  == <<coreVars, cobVars, loadVars, cmdVars, goVars, gateVars>>
cobOthers  == <<coreVars, detVars, loadVars, cmdVars, goVars, gateVars>>
loadOthers == <<coreVars, detVars, cobVars, cmdVars, goVars, gateVars>>
cmdOthers  == <<diffVars, histVars, lcovVars, pathVars, anVars, detVars, cobVars, loadVars,
                goVars, gateVars>>
goOthers   == <<coreVars, detVars, cobVars, loadVars, cmdVars, gateVars>>
gateOthers == <<coreVars, detVars, cobVars, loadVars, cmdVars, goVars>>

NoCommit == [file |-> EmptyStr, pre |-> "none", class |-> "none"]

NothingSeen == [badHeader |-> FALSE, body |-> [x \in {} |-> {}]]

\* a Go map written at one key
MapPut(m, k, v) == [x \in DOMAIN m \cup {k} |-> IF x = k THEN v ELSE m[x]]

\* r.ChangedLines[file]: the zero value (no lines) when the key is absent
Lookup(m, k) == IF k \in DOMAIN m THEN m[k] ELSE {}

EmptyMap == [x \in {} |-> {}]

DiffInit ==
    /\ pc = "scan"
    /\ ChangedLines = EmptyMap
    /\ AddedLines = EmptyMap
    /\ RemovedLines = EmptyMap
    /\ NewFiles = {}
    /\ ModifiedFiles = {}
    /\ currentFile = EmptyStr
    /\ currentFileOldPath = EmptyStr
    /\ currentLine = 0
    /\ scanned = 0
    /\ ownPre = "none"
    /\ lastCommit = NoCommit
    /\ diffSeen = NothingSeen
    /\ inHunk = FALSE
    /\ hunkStart = 0
    /\ hunkCount = 0
    /\ hunkBase = {}
    /\ hunkAdded = {}

\* one iteration of the scanner loop of ParseGitDiff reads one line
ScanStep ==
    /\ pc = "scan"
    /\ scanned < MaxDiffLines
    /\ scanned' = scanned + 1
    /\ UNCHANGED diffOthers

HistReset ==
    /\ inHunk' = FALSE
    /\ hunkStart' = 0
    /\ hunkCount' = 0
    /\ hunkBase' = {}
    /\ hunkAdded' = {}

\* "--- a/<path>": remember the old path
ScanOldPath(line) ==
    /\ ScanStep
    /\ HasPrefix(line, "--- a/")
    /\ currentFileOldPath' = line.path
    /\ UNCHANGED <<pc, ChangedLines, AddedLines, RemovedLines, NewFiles, ModifiedFiles,
                   currentFile, currentLine>>
    /\ ownPre' = IF ownPre = "none" THEN "path" ELSE "bad"
    /\ UNCHANGED <<lastCommit, diffSeen>>
    /\ HistReset

\* the classification of the file committed by "+++ b/<path>"
IsNewByOldPath(old) == old = DevNull \/ old = EmptyStr

\* "+++ b/<path>": commit the file, or skip a deleted one
ScanNewPath(line) ==
    /\ ScanStep
    /\ ~HasPrefix(line, "--- a/")
    /\ HasPrefix(line, "+++ b/")
    /\ IF line.path = DevNull
       THEN /\ currentFile' = EmptyStr
            /\ currentFileOldPath' = EmptyStr
            /\ UNCHANGED <<ChangedLines, AddedLines, RemovedLines, NewFiles, ModifiedFiles>>
            /\ UNCHANGED lastCommit
       ELSE /\ currentFile' = line.path
            /\ ChangedLines' = MapPut(ChangedLines, line.path, {})
            /\ AddedLines' = MapPut(AddedLines, line.path, {})
            /\ RemovedLines' = MapPut(RemovedLines, line.path, {})
            /\ IF IsNewByOldPath(currentFileOldPath)
               THEN /\ NewFiles' = NewFiles \cup {line.path}
                    /\ UNCHANGED ModifiedFiles
                    /\ lastCommit' = [file |-> line.path, pre |-> ownPre, class |-> "new"]
               ELSE /\ ModifiedFiles' = ModifiedFiles \cup {line.path}
                    /\ UNCHANGED NewFiles
                    /\ lastCommit' = [file |-> line.path, pre |-> ownPre,
                                      class |-> "modified"]
            /\ currentFileOldPath' = EmptyStr
    /\ UNCHANGED <<pc, currentLine>>
    /\ ownPre' = "none"
    /\ diffSeen' = IF line.path = DevNull THEN diffSeen
                   ELSE [diffSeen EXCEPT !.body = MapPut(@, line.path, {})]
    /\ HistReset

\* strconv.Atoi of the start field of a hunk header
Atoi(line) == [ok |-> line.numeric, val |-> line.start]

\* "@@ ...": a hunk header
ScanHunkHeader(line) ==
    /\ ScanStep
    /\ ~HasPrefix(line, "--- a/")
    /\ ~HasPrefix(line, "+++ b/")
    /\ HasPrefix(line, "@@")
    /\ IF ~line.fields \/ ~line.plus
       THEN /\ UNCHANGED <<pc, ChangedLines, AddedLines, RemovedLines, NewFiles,
                           ModifiedFiles, currentFile, currentFileOldPath, currentLine>>
            /\ HistReset
       ELSE IF ~Atoi(line).ok
       THEN \* return nil, err
            /\ pc' = "error"
            /\ ChangedLines' = EmptyMap
            /\ AddedLines' = EmptyMap
            /\ RemovedLines' = EmptyMap
            /\ NewFiles' = {}
            /\ ModifiedFiles' = {}
            /\ currentFile' = EmptyStr
            /\ currentFileOldPath' = EmptyStr
            /\ currentLine' = 0
            /\ HistReset
       ELSE /\ currentLine' = Atoi(line).val - 1
            /\ UNCHANGED <<pc, ChangedLines, AddedLines, RemovedLines, NewFiles,
                           ModifiedFiles, currentFile, currentFileOldPath>>
            /\ inHunk' = TRUE
            /\ hunkStart' = Atoi(line).val
            /\ hunkCount' = 0
            /\ hunkBase' = Lookup(ChangedLines, currentFile)
            /\ hunkAdded' = {}
    /\ ownPre' = IF ownPre = "none" THEN "none" ELSE "bad"
    /\ UNCHANGED lastCommit
    /\ diffSeen' = IF line.meaning = "badhunk"
                   THEN [diffSeen EXCEPT !.badHeader = TRUE]
                   ELSE diffSeen

\* the file-marker lines the parser does not recognise end the hunk they follow
HistBody(line) ==
    IF line.meaning \in {"prenull", "postnull"}
    THEN /\ ownPre' = CASE line.meaning = "postnull" -> "none"
                         [] ownPre = "none" -> "null"
                         [] OTHER -> "bad"
         /\ HistReset
    ELSE /\ ownPre' = IF ownPre = "none" THEN "none" ELSE "bad"
         /\ UNCHANGED <<inHunk, hunkStart, hunkBase>>
         /\ hunkCount' = IF line.meaning = "removed" THEN hunkCount ELSE hunkCount + 1
         /\ hunkAdded' = IF line.meaning = "added"
                         THEN hunkAdded \cup {hunkStart + hunkCount}
                         ELSE hunkAdded

\* any other line while no file is current
ScanSkip(line) ==
    /\ ScanStep
    /\ ~HasPrefix(line, "--- a/")
    /\ ~HasPrefix(line, "+++ b/")
    /\ ~HasPrefix(line, "@@")
    /\ currentFile = EmptyStr
    /\ UNCHANGED <<pc, ChangedLines, AddedLines, RemovedLines, NewFiles, ModifiedFiles,
                   currentFile, currentFileOldPath, currentLine>>
    /\ HistBody(line)
    /\ UNCHANGED <<lastCommit, diffSeen>>

\* a line of a hunk: added, removed, or context
ScanBody(line) ==
    /\ ScanStep
    /\ ~HasPrefix(line, "--- a/")
    /\ ~HasPrefix(line, "+++ b/")
    /\ ~HasPrefix(line, "@@")
    /\ currentFile # EmptyStr
    /\ IF HasPrefix(line, "+") /\ ~HasPrefix(line, "+++")
       THEN /\ currentLine' = currentLine + 1
            /\ ChangedLines' = MapPut(ChangedLines, currentFile,
                                      Lookup(ChangedLines, currentFile) \cup {currentLine + 1})
            /\ AddedLines' = MapPut(AddedLines, currentFile,
                                    Lookup(AddedLines, currentFile) \cup {currentLine + 1})
       ELSE IF HasPrefix(line, "-") /\ ~HasPrefix(line, "---")
       THEN UNCHANGED <<currentLine, ChangedLines, AddedLines>>
       ELSE IF HasPrefix(line, " ") \/ (~HasPrefix(line, "+") /\ ~HasPrefix(line, "-"))
       THEN /\ currentLine' = currentLine + 1
            /\ UNCHANGED <<ChangedLines, AddedLines>>
       ELSE UNCHANGED <<currentLine, ChangedLines, AddedLines>>
    /\ UNCHANGED <<pc, RemovedLines, NewFiles, ModifiedFiles, currentFile,
                   currentFileOldPath>>
    /\ HistBody(line)
    /\ UNCHANGED lastCommit
    /\ diffSeen' = IF inHunk /\ line.meaning \in {"added", "removed", "context"}
                   THEN [diffSeen EXCEPT !.body =
                            MapPut(@, currentFile,
                                   Lookup(@, currentFile) \cup {line.meaning})]
                   ELSE diffSeen

\* GetChangedFiles: the keys of ChangedLines
GetChangedFiles == DOMAIN ChangedLines

\* HasChanges
HasChanges == Cardinality(DOMAIN ChangedLines) > 0

\* scanner.Scan() returns false: return result, nil
ScanEnd ==
    /\ pc = "scan"
    /\ pc' = "done"
    /\ UNCHANGED <<ChangedLines, AddedLines, RemovedLines, NewFiles, ModifiedFiles,
                   currentFile, currentFileOldPath, currentLine, scanned>>
    /\ UNCHANGED histVars
    /\ UNCHANGED diffOthers

(***************************************************************************)
(* ParseLCOV                                                               *)
(*   An LCOV line, after strings.TrimSpace, is modelled by its tag and the *)
(*   outcome of splitting and converting its payload.                      *)
(***************************************************************************)
MaxLcovLines == 5

LcovPaths   == {FileA, FileB, EmptyStr}
LcovLineNos == {10, 11}
LcovHits    == {-1, 0, 5}

LcovLine(tag, path, parts, numOk, hitsOk, num, hits) ==
    [tag |-> tag, path |-> path, parts |-> parts, numOk |-> numOk,
     hitsOk |-> hitsOk, num |-> num, hits |-> hits]

SFLine(p)     == LcovLine("SF:", p, 0, FALSE, FALSE, 0, 0)
DALine(n, h)  == LcovLine("DA:", EmptyStr, 2, TRUE, TRUE, n, h)
\* "DA:10", "DA:10,5,abc": not two comma-separated parts
DAPartsLine   == LcovLine("DA:", EmptyStr, 3, TRUE, TRUE, 10, 5)
\* "DA:x,5"
DABadNumLine  == LcovLine("DA:", EmptyStr, 2, FALSE, TRUE, 0, 5)
\* "DA:10,x"
DABadHitsLine == LcovLine("DA:", EmptyStr, 2, TRUE, FALSE, 10, 0)
EndOfRecord   == LcovLine("end_of_record", EmptyStr, 0, FALSE, FALSE, 0, 0)
EmptyLine     == LcovLine("", EmptyStr, 0, FALSE, FALSE, 0, 0)
\* "TN:", "LF:3", "FN:..." and every other line
OtherLcovLine == LcovLine("other", EmptyStr, 0, FALSE, FALSE, 0, 0)

LcovLines == {SFLine(p) : p \in LcovPaths}
             \cup {DALine(n, h) : n \in LcovLineNos, h \in LcovHits}
             \cup {DAPartsLine, DABadNumLine, DABadHitsLine,
                   EndOfRecord, EmptyLine, OtherLcovLine}

\* &CoverageData{LineHits: make(map[int]int)}
NewCoverageData == [LineHits |-> [l \in {} |-> 0], TotalLines |-> 0, CoveredLines |-> 0]

EmptyReport == [p \in {} |-> NewCoverageData]

\* coverage.LineHits[lineNum]: 0 when the line is absent
HitsOf(data, lineNum) ==
    IF lineNum \in DOMAIN data.LineHits THEN data.LineHits[lineNum] ELSE 0

\* the effect of one well-formed DA line on the current record
RecordDA(data, lineNum, hits) ==
    [LineHits     |-> MapPut(data.LineHits, lineNum, hits),
     TotalLines   |-> data.TotalLines + 1,
     CoveredLines |-> IF hits > 0 THEN data.CoveredLines + 1 ELSE data.CoveredLines]

LcovInit ==
    /\ lcovPc = "scan"
    /\ lcovReport = EmptyReport
    /\ lcovCurrentFile = EmptyStr
    /\ lcovScanned = 0

\* one iteration of the scanner loop of ParseLCOV reads one line
LcovStep ==
    /\ lcovPc = "scan"
    /\ lcovScanned < MaxLcovLines
    /\ lcovScanned' = lcovScanned + 1
    /\ UNCHANGED lcovPc
    /\ UNCHANGED lcovOthers

\* an empty line
LcovEmpty(line) ==
    /\ LcovStep
    /\ line.tag = ""
    /\ UNCHANGED <<lcovReport, lcovCurrentFile>>

\* "SF:<path>": start a record
LcovSF(line) ==
    /\ LcovStep
    /\ line.tag = "SF:"
    /\ lcovCurrentFile' = line.path
    /\ lcovReport' = MapPut(lcovReport, line.path, NewCoverageData)

\* any other line while no record is open
LcovSkip(line) ==
    /\ LcovStep
    /\ line.tag \notin {"", "SF:"}
    /\ lcovCurrentFile = EmptyStr
    /\ UNCHANGED <<lcovReport, lcovCurrentFile>>

\* "DA:<line>,<hits>"
LcovDA(line) ==
    /\ LcovStep
    /\ line.tag = "DA:"
    /\ lcovCurrentFile # EmptyStr
    /\ IF line.parts # 2 \/ ~line.numOk \/ ~line.hitsOk
       THEN UNCHANGED lcovReport
       ELSE lcovReport' = MapPut(lcovReport, lcovCurrentFile,
                                 RecordDA(lcovReport[lcovCurrentFile], line.num, line.hits))
    /\ UNCHANGED lcovCurrentFile

\* "end_of_record": close the record
LcovEnd(line) ==
    /\ LcovStep
    /\ line.tag = "end_of_record"
    /\ lcovCurrentFile # EmptyStr
    /\ lcovCurrentFile' = EmptyStr
    /\ UNCHANGED lcovReport

\* a line with no meaning to the parser, inside a record
LcovOther(line) ==
    /\ LcovStep
    /\ line.tag = "other"
    /\ lcovCurrentFile # EmptyStr
    /\ UNCHANGED <<lcovReport, lcovCurrentFile>>

\* scanner.Scan() returns false: return report, nil
LcovScanEnd ==
    /\ lcovPc = "scan"
    /\ lcovPc' = "done"
    /\ UNCHANGED <<lcovReport, lcovCurrentFile, lcovScanned>>
    /\ UNCHANGED lcovOthers

\* a *Report: nil, or a report with its FileCoverage map
NilReport == [isNil |-> TRUE, FileCoverage |-> EmptyReport]
MkReport(fileCoverage) == [isNil |-> FALSE, FileCoverage |-> fileCoverage]

\* GetCoverageForFile: a *CoverageData, nil when the path is no key of the report
GetCoverageForFile(report, filePath) ==
    IF filePath \in DOMAIN report.FileCoverage
    THEN [isNil |-> FALSE, data |-> report.FileCoverage[filePath]]
    ELSE [isNil |-> TRUE, data |-> NewCoverageData]

\* GetCoverageForLine
GetCoverageForLine(report, filePath, lineNum) ==
    LET coverage == GetCoverageForFile(report, filePath)
    IN  IF coverage.isNil THEN 0 ELSE HitsOf(coverage.data, lineNum)

\* IsLineCovered
IsLineCovered(report, filePath, lineNum) ==
    GetCoverageForLine(report, filePath, lineNum) > 0

(***************************************************************************)
(* NormalizePath                                                           *)
(***************************************************************************)
Separator == "/"

\* filepath.ToSlash
ToSlash(path) == [i \in DOMAIN path |-> IF path[i] = Separator THEN "/" ELSE path[i]]

\* filepath.IsAbs
IsAbs(path) == HasPrefixTok(path, "/")

\* strings.HasPrefix and strings.TrimPrefix for a prefix of several tokens
HasPrefixStr(s, prefix) ==
    Len(s) >= Len(prefix) /\ SubSeq(s, 1, Len(prefix)) = prefix
TrimPrefixStr(s, prefix) ==
    IF HasPrefixStr(s, prefix) THEN SubSeq(s, Len(prefix) + 1, Len(s)) ELSE s

\* getRepoRoot: the memoized value
getRepoRoot == repoRootCache

NormalizePath(path) ==
    IF path = EmptyStr THEN path
    ELSE LET normalized == TrimPrefixTok(ToSlash(path), "./")
         IN  IF IsAbs(path)
             THEN LET repoRoot == getRepoRoot
                      repoRootSlash == ToSlash(repoRoot)
                  IN  IF repoRoot # EmptyStr
                      THEN IF HasPrefixStr(normalized, repoRootSlash \o <<"/">>)
                           THEN TrimPrefixStr(normalized, repoRootSlash \o <<"/">>)
                           ELSE IF normalized = repoRootSlash
                           THEN EmptyStr
                           ELSE TrimPrefixTok(normalized, "/")
                      ELSE TrimPrefixTok(normalized, "/")
             ELSE TrimPrefixTok(normalized, "/")

(***************************************************************************)
(* The change analyzer                                                     *)
(*   A percentage is the exact rational num/den, kept as <<num, den>>;     *)
(*   float64(covered) / float64(total) * 100 compares with a whole-number   *)
(*   threshold as the exact value does for every total below 50.           *)
(***************************************************************************)
ZeroPct == <<0, 1>>
Pct(covered, total) == <<covered * 100, total>>
PctGE(p, q)  == p[1] * q[2] >= q[1] * p[2]
PctLT(p, q)  == p[1] * q[2] < q[1] * p[2]
PctEq(p, q)  == p[1] * q[2] = q[1] * p[2]
Whole(n)     == <<n, 1>>

\* the orders in which a Go map with key set S can be ranged over
Orders(S) ==
    {o \in [1..Cardinality(S) -> S] : \A i, j \in DOMAIN o : i # j => o[i] # o[j]}

RECURSIVE SumFn(_, _)
SumFn(f, S) ==
    IF S = {} THEN 0
    ELSE LET x == CHOOSE y \in S : TRUE IN f[x] + SumFn(f, S \ {x})

\* the baseline block of analyzeFile
BaselinePercentage(filePath, changedLines, baseline, isNewFile) ==
    LET normalizedPath == NormalizePath(filePath)
        exact == GetCoverageForFile(baseline, filePath)
        baselineFileCoverage ==
            IF exact.isNil THEN GetCoverageForFile(baseline, normalizedPath) ELSE exact
        baselineCovered ==
            Cardinality({lineNum \in changedLines :
                            \/ IsLineCovered(baseline, filePath, lineNum)
                            \/ IsLineCovered(baseline, normalizedPath, lineNum)})
        baselineTotal == Cardinality(changedLines)
    IN  IF ~isNewFile /\ ~baseline.isNil /\ ~baselineFileCoverage.isNil /\ baselineTotal > 0
        THEN Pct(baselineCovered, baselineTotal)
        ELSE ZeroPct

\* whether analyzeFile counts a changed line as covered
LineIsCovered(filePath, lineNum, report) ==
    LET normalizedPath == NormalizePath(filePath)
        exact == GetCoverageForFile(report, filePath)
        fileCoverage ==
            IF exact.isNil THEN GetCoverageForFile(report, normalizedPath) ELSE exact
    IN  /\ ~fileCoverage.isNil
        /\ \/ IsLineCovered(report, filePath, lineNum)
           \/ IsLineCovered(report, normalizedPath, lineNum)

FilePercentageOfUncovered(covered, total) ==
    IF total > 0 THEN Pct(total - covered, total) ELSE ZeroPct

\* the file-level percentage of analyzeFile, guarded against a zero total
FilePercentage(covered, total) == IF total > 0 THEN Pct(covered, total) ELSE ZeroPct

\* analyzeFile; order is the order in which the range over changedLines runs
analyzeFile(filePath, order, report, baseline, isNewFile) ==
    LET changedLines == {order[i] : i \in DOMAIN order}
        coveredNums   == SelectSeq(order, LAMBDA l : LineIsCovered(filePath, l, report))
        uncoveredNums == SelectSeq(order, LAMBDA l : ~LineIsCovered(filePath, l, report))
    IN  [FilePath                   |-> filePath,
         TotalChangedLines          |-> Len(order),
         CoveredLines               |-> Len(coveredNums),
         UncoveredLines             |-> Len(uncoveredNums),
         CoveragePercentage         |-> FilePercentage(Len(coveredNums), Len(order)),
         UncoveredLineNumbers       |-> uncoveredNums,
         CoveredLineNumbers         |-> coveredNums,
         IsNewFile                  |-> isNewFile,
         BaselineCoveragePercentage |->
             BaselinePercentage(filePath, changedLines, baseline, isNewFile)]

\* r.NewFiles[file]
IsNewFile(file) == file \in NewFiles

\* the sub-aggregate over the files of one kind
FileTypeMetrics(fileResults, files) ==
    LET total   == SumFn([f \in files |-> fileResults[f].TotalChangedLines], files)
        covered == SumFn([f \in files |-> fileResults[f].CoveredLines], files)
    IN  [TotalChangedLines  |-> total,
         CoveredLines       |-> covered,
         UncoveredLines     |-> SumFn([f \in files |-> fileResults[f].UncoveredLines], files),
         CoveragePercentage |-> IF total > 0 THEN Pct(covered, total) ELSE ZeroPct,
         FileCount          |-> Cardinality(files)]

\* the *AnalysisResult built by AnalyzeWithBaseline; orders[f] is the order in
\* which the changed lines of f are ranged over
BuildResult(orders) ==
    LET files == DOMAIN ChangedLines
        fileResults == [f \in files |->
            analyzeFile(f, orders[f], coverageReport, baselineReport, IsNewFile(f))]
        total   == SumFn([f \in files |-> fileResults[f].TotalChangedLines], files)
        covered == SumFn([f \in files |-> fileResults[f].CoveredLines], files)
    IN  [isNil               |-> FALSE,
         TotalChangedLines   |-> total,
         CoveredLines        |-> covered,
         UncoveredLines      |-> SumFn([f \in files |-> fileResults[f].UncoveredLines], files),
         CoveragePercentage  |-> IF total > 0 THEN Pct(covered, total) ELSE ZeroPct,
         FileResults         |-> fileResults,
         NewFileMetrics      |-> FileTypeMetrics(fileResults, {f \in files : IsNewFile(f)}),
         ModifiedFileMetrics |-> FileTypeMetrics(fileResults, {f \in files : ~IsNewFile(f)})]

EmptyMetrics == [TotalChangedLines |-> 0, CoveredLines |-> 0, UncoveredLines |-> 0,
                 CoveragePercentage |-> ZeroPct, FileCount |-> 0]

NilResult == [isNil |-> TRUE, TotalChangedLines |-> 0, CoveredLines |-> 0,
              UncoveredLines |-> 0, CoveragePercentage |-> ZeroPct,
              FileResults |-> EmptyMap, NewFileMetrics |-> EmptyMetrics,
              ModifiedFileMetrics |-> EmptyMetrics]

NoMeets == [called |-> FALSE, threshold |-> 0, ok |-> FALSE]

\* Analyze and AnalyzeWithBaseline (Analyze passes a nil baseline);
\* the diff result is nil when ParseGitDiff returned an error
AnalyzeWithBaseline ==
    /\ anPc = "ready"
    /\ pc \in {"done", "error"}
    /\ anPc' = "done"
    /\ IF pc = "error"
       THEN /\ result' = NilResult
            /\ anErr' = "diff result cannot be nil"
       ELSE IF coverageReport.isNil
       THEN /\ result' = NilResult
            /\ anErr' = "coverage report cannot be nil"
       ELSE /\ \E orders \in [DOMAIN ChangedLines -> UNION {Orders(ChangedLines[f]) :
                                                           f \in DOMAIN ChangedLines}] :
                  /\ \A f \in DOMAIN ChangedLines : orders[f] \in Orders(ChangedLines[f])
                  /\ result' = BuildResult(orders)
            /\ anErr' = ""
    /\ UNCHANGED <<coverageReport, baselineReport, meets>>
    /\ UNCHANGED anOthers

MeetsThresholdStrict(r, threshold) ==
    r.CoveragePercentage[1] > threshold * r.CoveragePercentage[2]

\* (*AnalysisResult).MeetsThreshold
MeetsThreshold(r, threshold) == PctGE(r.CoveragePercentage, Whole(threshold))

Thresholds == {0, 50, 100}

\* a caller asks whether the result meets a threshold
CallMeetsThreshold(threshold) ==
    /\ anPc = "done"
    /\ ~result.isNil
    /\ anPc' = "checked"
    /\ meets' = [called |-> TRUE, threshold |-> threshold,
                 ok |-> MeetsThreshold(result, threshold)]
    /\ UNCHANGED <<coverageReport, baselineReport, result, anErr>>
    /\ UNCHANGED anOthers

AnIdle ==
    /\ repoRootCache = EmptyStr
    /\ anPc = "idle"
    /\ coverageReport = NilReport
    /\ baselineReport = NilReport
    /\ result = NilResult
    /\ anErr = ""
    /\ meets = NoMeets

(***************************************************************************)
(* Inputs of the analyzer                                                  *)
(***************************************************************************)
DotA   == <<"./", "a.go">>
AbsA   == <<"/", "repo", "/", "a.go">>
RepoRoots == {EmptyStr, <<"/", "repo">>}

AnFiles   == {DotA, AbsA}
AnKeys    == {DotA, FileA}
AnLineNos == {6, 7}
AnHits    == {0, 5}

\* a CoverageData as a parser builds it from one entry per line
MkData(lineHits) ==
    [LineHits     |-> lineHits,
     TotalLines   |-> Cardinality(DOMAIN lineHits),
     CoveredLines |-> Cardinality({l \in DOMAIN lineHits : lineHits[l] > 0})]

DataOver(lineNos, hits) ==
    {MkData(h) : h \in UNION {[ls -> hits] : ls \in SUBSET lineNos}}

ReportsOver(keys, lineNos, hits) ==
    {MkReport(m) : m \in UNION {[ks -> DataOver(lineNos, hits)] : ks \in SUBSET keys}}

\* the change sets a parse can return: per file its added lines
ChangeSets == UNION {[fs -> SUBSET AnLineNos] : fs \in SUBSET AnFiles}

AnReports == ReportsOver(AnKeys, AnLineNos, AnHits)

\* the current reports tried together with a baseline: no file known, or
\* every line of every file hit
AnPlainReports ==
    {r \in ReportsOver(AnKeys, AnLineNos, {5}) :
        /\ DOMAIN r.FileCoverage \in {{}, AnKeys}
        /\ \A k \in DOMAIN r.FileCoverage :
              DOMAIN r.FileCoverage[k].LineHits = AnLineNos}

(***************************************************************************)
(* The health aggregator                                                   *)
(***************************************************************************)
TestTypeUnit        == "unit"
TestTypeAPI         == "api"
TestTypeFunctional  == "functional"
TestTypeIntegration == "integration"
TestTypeE2E         == "e2e"

\* a *TestCoverageReport
Suite(testType, report) == [TestType |-> testType, CoverageReport |-> report]

MergeFileLastWins(aggFileCoverage, fileCoverage) ==
    LET merged == [l \in DOMAIN aggFileCoverage.LineHits \cup DOMAIN fileCoverage.LineHits |->
                      IF l \in DOMAIN fileCoverage.LineHits THEN fileCoverage.LineHits[l]
                      ELSE aggFileCoverage.LineHits[l]]
    IN  [LineHits     |-> merged,
         TotalLines   |-> fileCoverage.TotalLines,
         CoveredLines |-> Cardinality({l \in DOMAIN merged : merged[l] > 0})]

\* the merge of one suite's record of a file into the aggregated record
MergeFile(aggFileCoverage, fileCoverage) ==
    LET raised == {l \in DOMAIN fileCoverage.LineHits :
                      fileCoverage.LineHits[l] > HitsOf(aggFileCoverage, l)}
        merged == [l \in DOMAIN aggFileCoverage.LineHits \cup raised |->
                      IF l \in raised THEN fileCoverage.LineHits[l]
                      ELSE aggFileCoverage.LineHits[l]]
    IN  [LineHits     |-> merged,
         TotalLines   |-> fileCoverage.TotalLines,
         CoveredLines |-> Cardinality({l \in DOMAIN merged : merged[l] > 0})]

\* the merge of one suite's report into the aggregated report
MergeReport(agg, fileCoverage) ==
    [p \in DOMAIN agg \cup DOMAIN fileCoverage |->
        IF p \in DOMAIN fileCoverage
        THEN MergeFile(IF p \in DOMAIN agg THEN agg[p] ELSE NewCoverageData,
                       fileCoverage[p])
        ELSE agg[p]]

\* the loop of AggregateCoverage from the i-th suite on
RECURSIVE AggregateFrom(_, _, _)
AggregateFrom(reports, i, agg) ==
    IF i > Len(reports) THEN agg
    ELSE AggregateFrom(reports, i + 1,
                       IF reports[i].CoverageReport.isNil THEN agg
                       ELSE MergeReport(agg, reports[i].CoverageReport.FileCoverage))

AggregateCoverage(reports) == MkReport(AggregateFrom(reports, 1, EmptyReport))

PctSub(p, q) == <<p[1] * q[2] - q[1] * p[2], p[2] * q[2]>>

RegressionOrEqual(delta, changedPct, t) ==
    ~PctLT(Whole(0), delta) /\ PctLT(changedPct, Whole(t))

\* HasRegression of analyzeFileHealth
Regression(delta, changedPct, t) ==
    PctLT(delta, Whole(0)) /\ PctLT(changedPct, Whole(t))

\* the record a suite resolves for a file: exact key, otherwise normalized key
SuiteFileCoverage(testReport, filePath) ==
    LET exact == GetCoverageForFile(testReport.CoverageReport, filePath)
    IN  IF exact.isNil
        THEN GetCoverageForFile(testReport.CoverageReport, NormalizePath(filePath))
        ELSE exact

\* the number of (covered changed line, suite of the type) pairs in which the
\* suite's record of the file has hits for the line
CoveredByType(filePath, coveredLines, reports, testType) ==
    SumFn([i \in DOMAIN reports |->
              IF /\ ~reports[i].CoverageReport.isNil
                 /\ reports[i].TestType = testType
                 /\ ~SuiteFileCoverage(reports[i], filePath).isNil
              THEN Cardinality({l \in coveredLines :
                      HitsOf(SuiteFileCoverage(reports[i], filePath).data, l) > 0})
              ELSE 0],
          DOMAIN reports)

\* the body of analyzeFileHealth after its call of AggregateCoverage
FileHealthOf(filePath, changedLines, reports, currentAggregated, baseline, t) ==
    LET isNew == IsNewFile(filePath)
        exact == GetCoverageForFile(currentAggregated, filePath)
        fileCoverage ==
            IF exact.isNil
            THEN GetCoverageForFile(currentAggregated, NormalizePath(filePath))
            ELSE exact
        covered == {l \in changedLines : LineIsCovered(filePath, l, currentAggregated)}
        n == Cardinality(changedLines)
        changedPct == IF n > 0 THEN Pct(Cardinality(covered), n) ELSE ZeroPct
        bExact == GetCoverageForFile(baseline, filePath)
        baselineFileCoverage ==
            IF bExact.isNil THEN GetCoverageForFile(baseline, NormalizePath(filePath))
            ELSE bExact
        compared == ~baseline.isNil /\ ~isNew /\ ~baselineFileCoverage.isNil
        baselineCovered ==
            Cardinality({l \in changedLines :
                            \/ IsLineCovered(baseline, filePath, l)
                            \/ IsLineCovered(baseline, NormalizePath(filePath), l)})
        baselinePct == IF compared /\ n > 0 THEN Pct(baselineCovered, n) ELSE ZeroPct
        delta == IF compared THEN PctSub(changedPct, baselinePct) ELSE ZeroPct
        hasRegression == compared /\ Regression(delta, changedPct, t)
        byUnit == CoveredByType(filePath, covered, reports, TestTypeUnit)
        byAPI  == CoveredByType(filePath, covered, reports, TestTypeAPI)
        byFunctional == CoveredByType(filePath, covered, reports, TestTypeFunctional)
    IN  [FilePath                   |-> filePath,
         TotalLines                 |-> IF fileCoverage.isNil THEN 0
                                        ELSE fileCoverage.data.TotalLines,
         CoveredLines               |-> IF fileCoverage.isNil THEN 0
                                        ELSE fileCoverage.data.CoveredLines,
         UncoveredLines             |-> IF fileCoverage.isNil THEN 0
                                        ELSE fileCoverage.data.TotalLines
                                             - fileCoverage.data.CoveredLines,
         CoveragePercentage         |->
             IF ~fileCoverage.isNil /\ fileCoverage.data.TotalLines > 0
             THEN Pct(fileCoverage.data.CoveredLines, fileCoverage.data.TotalLines)
             ELSE ZeroPct,
         UnitTestCoverage           |-> IF n > 0 THEN Pct(byUnit, n) ELSE ZeroPct,
         APITestCoverage            |-> IF n > 0 THEN Pct(byAPI, n) ELSE ZeroPct,
         FunctionalTestCoverage     |-> IF n > 0 THEN Pct(byFunctional, n) ELSE ZeroPct,
         ChangedLines               |-> n,
         ChangedCoveredLines        |-> Cardinality(covered),
         ChangedUncoveredLines      |-> n - Cardinality(covered),
         ChangedCoveragePercentage  |-> changedPct,
         BaselineCoveragePercentage |-> baselinePct,
         CoverageDelta              |-> delta,
         ChangedLinesCoveredByUnit       |-> byUnit,
         ChangedLinesCoveredByAPI        |-> byAPI,
         ChangedLinesCoveredByFunctional |-> byFunctional,
         IsNewFile                  |-> isNew,
         HasRegression              |-> hasRegression,
         NeedsAttention             |-> PctLT(changedPct, Whole(t)) \/ hasRegression]

\* analyzeFileHealth: it aggregates the suites once and fills the record
analyzeFileHealthFirstSuite(filePath, changedLines, reports, baseline, t) ==
    CHOOSE health \in {FileHealthOf(filePath, changedLines, reports,
                                    currentAggregated, baseline, t) :
                          currentAggregated \in
                              {AggregateCoverage(SubSeq(reports, 1, 1))}} : TRUE

analyzeFileHealth(filePath, changedLines, reports, baseline, t) ==
    CHOOSE health \in {FileHealthOf(filePath, changedLines, reports,
                                    currentAggregated, baseline, t) :
                          currentAggregated \in {AggregateCoverage(reports)}} : TRUE

\* the summed totals of the suites of one type, as calculateTestTypeCoverage
TypeCoverage(reports, testType) ==
    LET mine == {i \in DOMAIN reports :
                    ~reports[i].CoverageReport.isNil /\ reports[i].TestType = testType}
        totalOf(i) == SumFn([p \in DOMAIN reports[i].CoverageReport.FileCoverage |->
                                reports[i].CoverageReport.FileCoverage[p].TotalLines],
                            DOMAIN reports[i].CoverageReport.FileCoverage)
        coveredOf(i) == SumFn([p \in DOMAIN reports[i].CoverageReport.FileCoverage |->
                                  reports[i].CoverageReport.FileCoverage[p].CoveredLines],
                              DOMAIN reports[i].CoverageReport.FileCoverage)
        total   == SumFn([i \in mine |-> totalOf(i)], mine)
        covered == SumFn([i \in mine |-> coveredOf(i)], mine)
    IN  IF total > 0 THEN Pct(covered, total) ELSE ZeroPct

Insight(type, category, title, file, count, severity) ==
    [Type |-> type, Category |-> category, Title |-> title, File |-> file,
     Count |-> count, Severity |-> severity]

\* the test-gap insight of one file, if any
GapInsights(fh) ==
    IF fh.ChangedUncoveredLines > 0
    THEN IF fh.ChangedLinesCoveredByUnit = 0 /\ fh.ChangedLinesCoveredByAPI = 0
         THEN <<Insight("warning", "test-gap", "No test coverage for changed lines",
                        fh.FilePath, fh.ChangedUncoveredLines, "high")>>
         ELSE IF /\ fh.ChangedLinesCoveredByUnit > 0
                 /\ fh.ChangedLinesCoveredByAPI = 0
                 /\ fh.ChangedLinesCoveredByFunctional = 0
         THEN <<Insight("info", "test-gap", "Unit tests only, consider integration tests",
                        fh.FilePath, 0, "medium")>>
         ELSE <<>>
    ELSE <<>>

RECURSIVE GapInsightsFrom(_, _, _)
GapInsightsFrom(fileHealth, order, i) ==
    IF i > Len(order) THEN <<>>
    ELSE GapInsights(fileHealth[order[i]]) \o GapInsightsFrom(fileHealth, order, i + 1)

\* generateInsights; order is the order in which the last loop ranges over FileHealth
generateInsights(fileHealth, changedCoverage, t, order) ==
    LET regressing == Cardinality({f \in DOMAIN fileHealth : fileHealth[f].HasRegression})
    IN  [HealthyFiles    |-> Cardinality({f \in DOMAIN fileHealth :
                                PctGE(fileHealth[f].ChangedCoveragePercentage, Whole(t))}),
         AtRiskFiles     |-> Cardinality({f \in DOMAIN fileHealth :
                                ~PctGE(fileHealth[f].ChangedCoveragePercentage, Whole(t))}),
         RegressingFiles |-> regressing,
         Insights |->
             (IF PctGE(changedCoverage, Whole(t))
              THEN <<Insight("success", "coverage", "Coverage threshold met",
                             EmptyStr, 0, "low")>>
              ELSE <<Insight("warning", "coverage", "Coverage below threshold",
                             EmptyStr, 0, "high")>>)
             \o (IF regressing > 0
                 THEN <<Insight("error", "regression", "file(s) with coverage regression",
                                EmptyStr, regressing, "critical")>>
                 ELSE <<>>)
             \o GapInsightsFrom(fileHealth, order, 1)]

Recommendation(priority, category, files) ==
    [Priority |-> priority, Category |-> category, Files |-> files,
     TestType |-> TestTypeUnit]

\* generateRecommendations; order is the order in which FileHealth is ranged over
generateRecommendations(fileHealth, t, order) ==
    LET filesNeedingTests ==
            SelectSeq(order, LAMBDA f :
                /\ fileHealth[f].NeedsAttention
                /\ ~fileHealth[f].HasRegression
                /\ PctLT(fileHealth[f].ChangedCoveragePercentage, Whole(t)))
        filesWithRegression ==
            SelectSeq(order, LAMBDA f :
                fileHealth[f].NeedsAttention /\ fileHealth[f].HasRegression)
    IN  (IF Len(filesNeedingTests) > 0
         THEN <<Recommendation("high", "add-tests", filesNeedingTests)>>
         ELSE <<>>)
        \o (IF Len(filesWithRegression) > 0
            THEN <<Recommendation("critical", "fix-regression", filesWithRegression)>>
            ELSE <<>>)

\* the *HealthReport AnalyzeHealth fills from the aggregated report and the
\* per-file records
BuildHealthReport(currentAggregated, fileHealth, gapOrder, recOrder) ==
    LET keys  == DOMAIN currentAggregated.FileCoverage
        files == DOMAIN fileHealth
        totalLines   == SumFn([p \in keys |-> currentAggregated.FileCoverage[p].TotalLines],
                              keys)
        totalCovered == SumFn([p \in keys |->
                                  currentAggregated.FileCoverage[p].CoveredLines], keys)
        changedLines   == SumFn([f \in files |-> fileHealth[f].ChangedLines], files)
        changedCovered == SumFn([f \in files |-> fileHealth[f].ChangedCoveredLines], files)
        changedCoverage ==
            IF changedLines > 0 THEN Pct(changedCovered, changedLines) ELSE ZeroPct
        newFiles == {f \in files : fileHealth[f].IsNewFile}
        modFiles == files \ newFiles
        newTotal   == SumFn([f \in newFiles |-> fileHealth[f].ChangedLines], newFiles)
        newCovered == SumFn([f \in newFiles |-> fileHealth[f].ChangedCoveredLines],
                            newFiles)
        modTotal   == SumFn([f \in modFiles |-> fileHealth[f].ChangedLines], modFiles)
        modCovered == SumFn([f \in modFiles |-> fileHealth[f].ChangedCoveredLines],
                            modFiles)
        insights == generateInsights(fileHealth, changedCoverage, hThreshold, gapOrder)
    IN  [isNil                 |-> FALSE,
         TotalFiles            |-> Cardinality(keys),
         TotalLines            |-> totalLines,
         TotalCoveredLines     |-> totalCovered,
         TotalUncoveredLines   |-> totalLines - totalCovered,
         OverallCoverage       |-> IF totalLines > 0 THEN Pct(totalCovered, totalLines)
                                   ELSE ZeroPct,
         ChangedFiles          |-> Cardinality(files),
         ChangedLines          |-> changedLines,
         ChangedCoveredLines   |-> changedCovered,
         ChangedUncoveredLines |->
             SumFn([f \in files |-> fileHealth[f].ChangedUncoveredLines], files),
         ChangedCoverage       |-> changedCoverage,
         UnitTestCoverage       |-> TypeCoverage(testReports, TestTypeUnit),
         APITestCoverage        |-> TypeCoverage(testReports, TestTypeAPI),
         FunctionalTestCoverage |-> TypeCoverage(testReports, TestTypeFunctional),
         FileHealth            |-> fileHealth,
         NewFilesCount         |-> Cardinality(newFiles),
         ModifiedFilesCount    |-> Cardinality(modFiles),
         NewFilesCoverage      |-> IF newTotal > 0 THEN Pct(newCovered, newTotal)
                                   ELSE ZeroPct,
         ModifiedFilesCoverage |-> IF modTotal > 0 THEN Pct(modCovered, modTotal)
                                   ELSE ZeroPct,
         HealthyFiles          |-> insights.HealthyFiles,
         AtRiskFiles           |-> insights.AtRiskFiles,
         RegressingFiles       |-> insights.RegressingFiles,
         Insights              |-> insights.Insights,
         Recommendations       |-> generateRecommendations(fileHealth, hThreshold, recOrder)]

NilHealthReport == [isNil |-> TRUE]

\* a caller aggregates the suites
CallAggregateCoverage ==
    /\ hPc = "ready"
    /\ hPc' = "aggregated"
    /\ aggregated' = AggregateCoverage(testReports)
    /\ UNCHANGED <<testReports, baselineReports, hThreshold, healthReport, hErr>>
    /\ UNCHANGED hOthers

\* AnalyzeHealth; the diff result is nil when ParseGitDiff returned an error
AnalyzeHealth ==
    /\ hPc = "ready"
    /\ pc \in {"done", "error"}
    /\ hPc' = "done"
    /\ IF pc = "error"
       THEN /\ healthReport' = NilHealthReport
            /\ hErr' = "diff result cannot be nil"
       ELSE IF Len(testReports) = 0
       THEN /\ healthReport' = NilHealthReport
            /\ hErr' = "at least one test coverage report is required"
       ELSE /\ \E currentAggregated \in {AggregateCoverage(testReports)} :
               \E baselineAggregated \in
                      {IF Len(baselineReports) > 0 THEN AggregateCoverage(baselineReports)
                       ELSE NilReport} :
               \E fileHealth \in
                      {[f \in DOMAIN ChangedLines |->
                          analyzeFileHealth(f, ChangedLines[f], testReports,
                                            baselineAggregated, hThreshold)]} :
               \E gapOrder \in Orders(DOMAIN ChangedLines) :
               \E recOrder \in Orders(DOMAIN ChangedLines) :
                  healthReport' = BuildHealthReport(currentAggregated, fileHealth,
                                                    gapOrder, recOrder)
            /\ hErr' = ""
    /\ UNCHANGED <<testReports, baselineReports, hThreshold, aggregated>>
    /\ UNCHANGED hOthers

HIdle ==
    /\ hPc = "idle"
    /\ testReports = <<>>
    /\ baselineReports = <<>>
    /\ hThreshold = 0
    /\ aggregated = NilReport
    /\ healthReport = NilHealthReport
    /\ hErr = ""

(***************************************************************************)
(* Inputs of the health aggregator                                         *)
(***************************************************************************)
MaxSuites == 2

AggKeys    == {FileA, FileB}
AggLineNos == {6, 7}
AggHits    == {0, 1, 2}

\* lists of at most n elements of S
SeqsUpTo(S, n) == UNION {[1..k -> S] : k \in 0..n}

\* the reports of a suite: any record of the first file, with or without a
\* one-line record of the second
AggReports ==
    LET first == ReportsOver({FileA}, AggLineNos, AggHits)
    IN  first \cup {MkReport(MapPut(r.FileCoverage, FileB, MkData([l \in {6} |-> 1]))) :
                      r \in first}

AggSuites == {Suite(TestTypeUnit, r) : r \in AggReports \cup {NilReport}}

HealthFiles   == {DotA}
HealthKeys    == {FileA}
HealthLineNos == {6, 7}
HealthTypes   == {TestTypeUnit, TestTypeAPI, TestTypeFunctional, TestTypeIntegration}

\* suite reports in which every line of a known file is instrumented and
\* none, the first or both of the lines are hit
HealthReports ==
    {MkReport(m) : m \in UNION {[ks -> {MkData([l \in HealthLineNos |->
                                                  IF l \in hit THEN 1 ELSE 0]) :
                                          hit \in {{}, {6}, {6, 7}}}] :
                                 ks \in SUBSET HealthKeys}}

HealthSuites == {Suite(t, r) : t \in HealthTypes, r \in HealthReports \cup {NilReport}}

BaselineSuites == {Suite(TestTypeUnit, r) : r \in HealthReports}

HealthChangeSets == UNION {[fs -> SUBSET HealthLineNos] : fs \in SUBSET HealthFiles}

(***************************************************************************)
(* getRepoRoot under concurrent callers                                    *)
(*   repoRootCacheOnce.Do(f): a caller that finds the done flag set        *)
(*   returns at once; otherwise it takes the mutex, looks at the flag      *)
(*   again, runs f if it is still clear, sets the flag and releases.       *)
(***************************************************************************)
Goroutines == {"g1", "g2", "g3"}
NoHolder   == "none"
MaxCalls   == 2

\* what `git rev-parse --show-toplevel` can give: an error, or a path and a newline
GitOutcomes == {[err |-> TRUE, output |-> EmptyStr],
                [err |-> FALSE, output |-> <<"/", "repo", "\n">>]}

WhiteSpace == {" ", "\n"}

RECURSIVE TrimLeft(_)
TrimLeft(s) ==
    IF Len(s) > 0 /\ s[1] \in WhiteSpace THEN TrimLeft(Tail(s)) ELSE s

RECURSIVE TrimRight(_)
TrimRight(s) ==
    IF Len(s) > 0 /\ s[Len(s)] \in WhiteSpace
    THEN TrimRight(SubSeq(s, 1, Len(s) - 1))
    ELSE s

\* strings.TrimSpace: leading and trailing white space removed
TrimSpace(s) == TrimRight(TrimLeft(s))

MutexFreeAlways(g) == TRUE

\* Mutex.Lock succeeds when nobody holds the mutex
MutexFree(g) == onceMutex = NoHolder

\* no goroutine has called getRepoRoot yet
OnceFresh ==
    /\ oncePc = [g \in Goroutines |-> "idle"]
    /\ onceDone = FALSE
    /\ onceMutex = NoHolder
    /\ gitRuns = 0
    /\ observed = [g \in Goroutines |-> [returned |-> FALSE, root |-> EmptyStr]]
    /\ onceCalls = [g \in Goroutines |-> 0]

\* the lookup has run: the cache holds its value
OnceSettled ==
    /\ oncePc = [g \in Goroutines |-> "idle"]
    /\ onceDone = TRUE
    /\ onceMutex = NoHolder
    /\ gitRuns = 1
    /\ observed = [g \in Goroutines |-> [returned |-> FALSE, root |-> EmptyStr]]
    /\ onceCalls = [g \in Goroutines |-> 0]

\* a goroutine calls getRepoRoot
OnceCall(g) ==
    /\ oncePc[g] = "idle"
    /\ onceCalls[g] < MaxCalls
    /\ onceCalls' = [onceCalls EXCEPT ![g] = @ + 1]
    /\ oncePc' = [oncePc EXCEPT ![g] = "fast"]
    /\ UNCHANGED <<repoRootCache, onceDone, onceMutex, gitRuns, observed>>
    /\ UNCHANGED onceOthers

\* Once.Do, fast path: the atomic load of the done flag
OnceFast(g) ==
    /\ oncePc[g] = "fast"
    /\ oncePc' = [oncePc EXCEPT ![g] = IF onceDone THEN "return" ELSE "lock"]
    /\ UNCHANGED <<repoRootCache, onceDone, onceMutex, gitRuns, observed, onceCalls>>
    /\ UNCHANGED onceOthers

\* Once.doSlow: take the mutex, look at the flag again
OnceLock(g) ==
    /\ oncePc[g] = "lock"
    /\ MutexFree(g)
    /\ IF onceDone
       THEN /\ oncePc' = [oncePc EXCEPT ![g] = "return"]
            /\ UNCHANGED onceMutex
       ELSE /\ oncePc' = [oncePc EXCEPT ![g] = "run"]
            /\ onceMutex' = g
    /\ UNCHANGED <<repoRootCache, onceDone, gitRuns, observed, onceCalls>>
    /\ UNCHANGED onceOthers

\* f: run git and store the trimmed output when it gave no error
OnceRun(g, outcome) ==
    /\ oncePc[g] = "run"
    /\ gitRuns' = gitRuns + 1
    /\ repoRootCache' = IF outcome.err THEN repoRootCache ELSE TrimSpace(outcome.output)
    /\ oncePc' = [oncePc EXCEPT ![g] = "store"]
    /\ UNCHANGED <<onceDone, onceMutex, observed, onceCalls>>
    /\ UNCHANGED onceOthers

\* Once.doSlow, deferred: set the done flag, release the mutex
OnceStore(g) ==
    /\ oncePc[g] = "store"
    /\ onceDone' = TRUE
    /\ onceMutex' = IF onceMutex = g THEN NoHolder ELSE onceMutex
    /\ oncePc' = [oncePc EXCEPT ![g] = "return"]
    /\ UNCHANGED <<repoRootCache, gitRuns, observed, onceCalls>>
    /\ UNCHANGED onceOthers

\* return repoRootCache
OnceReturn(g) ==
    /\ oncePc[g] = "return"
    /\ observed' = [observed EXCEPT ![g] = [returned |-> TRUE, root |-> repoRootCache]]
    /\ oncePc' = [oncePc EXCEPT ![g] = "idle"]
    /\ UNCHANGED <<repoRootCache, onceDone, onceMutex, gitRuns, onceCalls>>
    /\ UNCHANGED onceOthers

(***************************************************************************)
(* DetectCoverageFormat.  A file's content is a sequence of tokens: the    *)
(* markers the detector looks for, white space, and other text.            *)
(***************************************************************************)
MaxContentLen == 4

DetTokens == {"<?xml", "<coverage", "cobertura", "<package", "<class",
              "TN:", "SF:", "DA:", "mode:", "text", "\n"}
DetExts   == {".out", ".info"}

\* the substrings of a token that the detector searches for
Needles(tok) == IF tok = "<coverage" THEN {"<coverage", "coverage"} ELSE {tok}

\* strings.Contains(content, needle)
Contains(content, needle) ==
    \E i \in 1..Len(content) : needle \in Needles(content[i])

CoverageFile(readable, ext, content) ==
    [readable |-> readable, ext |-> ext, content |-> content]

NoFile == CoverageFile(FALSE, "", EmptyStr)

DetFiles ==
    {CoverageFile(TRUE, e, c) : e \in DetExts, c \in SeqsUpTo(DetTokens, MaxContentLen)}
    \cup {CoverageFile(FALSE, e, EmptyStr) : e \in DetExts}

\* the Cobertura test: an XML or coverage root, the word, a group element
LooksCobertura(content, trimmed) ==
    /\ HasPrefixTok(trimmed, "<?xml") \/ Contains(content, "<coverage")
    /\ Contains(content, "cobertura") \/ Contains(content, "coverage")
    /\ Contains(content, "<package") \/ Contains(content, "<class")

\* the LCOV test: a leading TN: or SF:, or both SF: and DA: somewhere
LooksLcov(content, trimmed) ==
    \/ HasPrefixTok(trimmed, "TN:")
    \/ HasPrefixTok(trimmed, "SF:")
    \/ Contains(content, "SF:") /\ Contains(content, "DA:")

\* the extension test: .out and neither SF: nor TN: in the content
LooksGoByExt(file) ==
    /\ file.ext = ".out"
    /\ \/ HasPrefixTok(TrimSpace(file.content), "mode:")
       \/ ~Contains(file.content, "SF:") /\ ~Contains(file.content, "TN:")

DetectCoverageFormat(file) ==
    IF ~file.readable THEN [format |-> "", err |-> TRUE]
    ELSE LET content == file.content
             trimmed == TrimSpace(content)
         IN  [format |-> IF LooksCobertura(content, trimmed) THEN "cobertura"
                         ELSE IF LooksLcov(content, trimmed) THEN "lcov"
                         ELSE IF HasPrefixTok(trimmed, "mode:") THEN "go"
                         ELSE IF LooksGoByExt(file) THEN "go"
                         ELSE "lcov",
              err |-> FALSE]

DetIdle ==
    /\ detPc = "idle"
    /\ detFile = NoFile
    /\ detFormat = ""
    /\ detErr = FALSE

CallDetectCoverageFormat ==
    /\ detPc = "ready"
    /\ detPc' = "done"
    /\ detFormat' = DetectCoverageFormat(detFile).format
    /\ detErr' = DetectCoverageFormat(detFile).err
    /\ UNCHANGED detFile
    /\ UNCHANGED detOthers

(***************************************************************************)
(* ParseCobertura: one step per class element of the decoded document.     *)
(***************************************************************************)
MaxClasses  == 2
MaxCobLines == 2

CobFilenames == {FileA, <<"./", "a.go">>}
CobLineNos   == {5, 6}
CobHits      == {0, 2}
CobSourceSets == {{}, {<<"src">>}}
\* the files os.Stat finds
CobOnDisk    == {<<"src", "/", "a.go">>}

\* <line number=".." hits=".."/>
CobLine(number, hits) == [Number |-> number, Hits |-> hits]
CobLineEntries == {CobLine(n, h) : n \in CobLineNos, h \in CobHits}

\* a class element: its own lines, and the lines of its methods in order
CobClass(filename, lines, methodLines) ==
    [Filename |-> filename, Lines |-> lines, MethodLines |-> methodLines]

\* a class lists a line number once among its own lines
CobClassLists ==
    {l \in SeqsUpTo(CobLineEntries, MaxCobLines) :
        \A i, j \in 1..Len(l) : l[i].Number = l[j].Number => i = j}

CobClassElements ==
    {CobClass(f, l, m) : f \in CobFilenames, l \in CobClassLists,
                         m \in SeqsUpTo(CobLineEntries, MaxCobLines)}

\* filepath.Join(sourcePath, filename)
Join(sourcePath, filename) ==
    sourcePath \o <<"/">> \o TrimPrefixTok(filename, "./")

resolveFilePath(filename, sourcePaths) ==
    IF filename \in sourcePaths THEN filename
    ELSE IF \E sp \in sourcePaths : Join(sp, filename) \in CobOnDisk
    THEN Join(CHOOSE sp \in sourcePaths : Join(sp, filename) \in CobOnDisk, filename)
    ELSE filename

\* one more count for line n
Bump(counts, n) ==
    MapPut(counts, n, (IF n \in DOMAIN counts THEN counts[n] ELSE 0) + 1)

NoCounts == [total |-> [n \in {} |-> 0], covered |-> [n \in {} |-> 0]]

BumpCounts(counts, line) ==
    [total   |-> Bump(counts.total, line.Number),
     covered |-> IF line.Hits > 0 THEN Bump(counts.covered, line.Number)
                 ELSE counts.covered]

\* the class-level loop: every line is stored and counted
RECURSIVE ClassLevelLines(_, _, _)
ClassLevelLines(acc, lines, i) ==
    IF i > Len(lines) THEN acc
    ELSE ClassLevelLines(
             [data   |-> RecordDA(acc.data, lines[i].Number, lines[i].Hits),
              counts |-> BumpCounts(acc.counts, lines[i])],
             lines, i + 1)

\* the method-level loop: a line is stored and counted when it is not present
RECURSIVE MethodLevelLines(_, _, _)
MethodLevelLines(acc, lines, i) ==
    IF i > Len(lines) THEN acc
    ELSE MethodLevelLines(
             IF lines[i].Number \in DOMAIN acc.data.LineHits
             THEN acc
             ELSE [data   |-> RecordDA(acc.data, lines[i].Number, lines[i].Hits),
                   counts |-> BumpCounts(acc.counts, lines[i])],
             lines, i + 1)

NothingListed == [class |-> {}, method |-> {}]

CobIdle ==
    /\ cobPc = "idle"
    /\ cobSources = {}
    /\ cobReport = EmptyReport
    /\ cobClasses = 0
    /\ cobListed = EmptyMap
    /\ cobCounted = EmptyMap

\* the body of the class loop
CobClassStep(class) ==
    /\ cobPc = "scan"
    /\ cobClasses < MaxClasses
    /\ cobClasses' = cobClasses + 1
    /\ \E filePath \in {NormalizePath(resolveFilePath(class.Filename, cobSources))} :
       \E start \in {[data   |-> IF filePath \in DOMAIN cobReport
                                 THEN cobReport[filePath] ELSE NewCoverageData,
                      counts |-> IF filePath \in DOMAIN cobCounted
                                 THEN cobCounted[filePath] ELSE NoCounts]} :
       \E acc \in {MethodLevelLines(ClassLevelLines(start, class.Lines, 1),
                                     class.MethodLines, 1)} :
          /\ cobReport' = MapPut(cobReport, filePath, acc.data)
          /\ cobCounted' = MapPut(cobCounted, filePath, acc.counts)
          /\ cobListed' =
                 MapPut(cobListed, filePath,
                    LET before == IF filePath \in DOMAIN cobListed
                                  THEN cobListed[filePath] ELSE NothingListed
                    IN  [class  |-> before.class \cup
                                      {class.Lines[i].Number : i \in 1..Len(class.Lines)},
                         method |-> before.method \cup
                                      {class.MethodLines[i].Number :
                                          i \in 1..Len(class.MethodLines)}])
    /\ UNCHANGED <<cobPc, cobSources>>
    /\ UNCHANGED cobOthers

\* return report, nil
CobEnd ==
    /\ cobPc = "scan"
    /\ cobPc' = "done"
    /\ UNCHANGED <<cobSources, cobReport, cobClasses, cobListed, cobCounted>>
    /\ UNCHANGED cobOthers

(***************************************************************************)
(* loadCoverageReport.  An artifact is a file of lines; a line is kept as  *)
(* what each reader makes of it: the marker tokens the detector sees, the  *)
(* LCOV line, the Go profile line, and the class elements of a Cobertura   *)
(* document.                                                               *)
(***************************************************************************)
MaxArtifactLines == 3

ModulePrefix == "github.com/swantron/difftron/"

\* a line of a Go profile as parseGoCoverageText reads it
GoLine(form, file, startLine, endLine, count) ==
    [form |-> form, file |-> file, startLine |-> startLine,
     endLine |-> endLine, count |-> count]
\* fewer than two fields, no colon, no comma, or a number that is none
GoSkipLine == GoLine("skip", EmptyStr, 0, 0, 0)
\* "mode: set"
GoModeLine == GoLine("mode", EmptyStr, 0, 0, 0)
\* "github.com/swantron/difftron/a.go:10.1,11.9 1 <count>"
GoRangeLine(count) == GoLine("range", <<ModulePrefix, "a.go">>, 10, 11, count)

ArtifactLine(kind, det, lcov, go, classes) ==
    [kind |-> kind, det |-> det, lcov |-> lcov, go |-> go, classes |-> classes]

\* "some unknown format"
ArtText     == ArtifactLine("text", <<"text">>, OtherLcovLine, GoSkipLine, <<>>)
\* "SF:a.go"
ArtSF       == ArtifactLine("sf", <<"SF:">>, SFLine(FileA), GoSkipLine, <<>>)
\* "DA:<n>,<h>"
ArtDALine(n, h) == ArtifactLine("da", <<"DA:">>, DALine(n, h), GoSkipLine, <<>>)
ArtDA       == ArtDALine(10, 5)
ArtMode     == ArtifactLine("mode", <<"mode:">>, OtherLcovLine, GoModeLine, <<>>)
ArtRange(count) ==
    ArtifactLine("range", <<"text">>, OtherLcovLine, GoRangeLine(count), <<>>)
\* "<?xml version=...?>"
ArtXmlDecl  == ArtifactLine("xmldecl", <<"<?xml">>, OtherLcovLine, GoSkipLine, <<>>)
\* a whole Cobertura document with one class of a.go
ArtCobertura ==
    ArtifactLine("cobertura", <<"<coverage", "<package", "<class">>, OtherLcovLine,
                 GoSkipLine, <<CobClass(FileA, <<CobLine(5, 2)>>, <<CobLine(6, 0)>>)>>)

ArtifactLines == {ArtText, ArtSF, ArtDA, ArtMode, ArtRange(0), ArtRange(2),
                  ArtXmlDecl, ArtCobertura}

Artifact(readable, ext, lines) == [readable |-> readable, ext |-> ext, lines |-> lines]

NoArtifact == Artifact(FALSE, "", <<>>)

Artifacts ==
    {Artifact(TRUE, e, l) : e \in DetExts, l \in SeqsUpTo(ArtifactLines, MaxArtifactLines)}
    \cup {Artifact(FALSE, e, <<>>) : e \in DetExts}

\* the content as the detector reads it
RECURSIVE DetContent(_, _)
DetContent(lines, i) ==
    IF i > Len(lines) THEN <<>>
    ELSE lines[i].det \o (IF i < Len(lines) THEN <<"\n">> ELSE <<>>)
         \o DetContent(lines, i + 1)

ParseFailed == [err |-> TRUE, report |-> NilReport]
Parsed(fileCoverage) == [err |-> FALSE, report |-> MkReport(fileCoverage)]

\* ParseLCOV: the scanner loop over the lines of the file
RECURSIVE LcovScan(_, _, _)
LcovScan(st, lines, i) ==
    IF i > Len(lines) THEN st
    ELSE LET line == lines[i].lcov
         IN  LcovScan(
                 IF line.tag = "" THEN st
                 ELSE IF line.tag = "SF:"
                 THEN [report |-> MapPut(st.report, line.path, NewCoverageData),
                       currentFile |-> line.path]
                 ELSE IF st.currentFile = EmptyStr THEN st
                 ELSE IF line.tag = "DA:"
                 THEN IF line.parts # 2 \/ ~line.numOk \/ ~line.hitsOk THEN st
                      ELSE [st EXCEPT !.report =
                               MapPut(st.report, st.currentFile,
                                      RecordDA(st.report[st.currentFile],
                                               line.num, line.hits))]
                 ELSE IF line.tag = "end_of_record"
                 THEN [st EXCEPT !.currentFile = EmptyStr]
                 ELSE st,
                 lines, i + 1)

ParseLCOV(file) ==
    IF ~file.readable THEN ParseFailed
    ELSE Parsed(LcovScan([report |-> EmptyReport, currentFile |-> EmptyStr],
                         file.lines, 1).report)

\* normalizeGoFilePath: the module prefix removed
normalizeGoFilePath(filePath) == TrimPrefixTok(ToSlash(filePath), ModulePrefix)

RECURSIVE GoRangeLoopLastWins(_, _, _, _)
GoRangeLoopLastWins(data, line, endLine, count) ==
    IF line > endLine THEN data
    ELSE LET wasAlreadySeen == HitsOf(data, line) > 0
             hit == IF count > 0
                    THEN IF line \in DOMAIN data.LineHits
                         THEN [data EXCEPT !.LineHits = MapPut(@, line, count)]
                         ELSE [data EXCEPT !.LineHits = MapPut(@, line, count),
                                           !.CoveredLines = @ + 1]
                    ELSE data
         IN  GoRangeLoopLastWins(IF wasAlreadySeen THEN hit
                                 ELSE [hit EXCEPT !.TotalLines = @ + 1],
                                 line + 1, endLine, count)

\* the loop over the lines of one range
RECURSIVE GoRangeLoop(_, _, _, _)
GoRangeLoop(data, line, endLine, count) ==
    IF line > endLine THEN data
    ELSE LET wasAlreadySeen == HitsOf(data, line) > 0
             hit == IF count > 0
                    THEN IF line \in DOMAIN data.LineHits
                         THEN IF count > data.LineHits[line]
                              THEN [data EXCEPT !.LineHits = MapPut(@, line, count)]
                              ELSE data
                         ELSE [data EXCEPT !.LineHits = MapPut(@, line, count),
                                           !.CoveredLines = @ + 1]
                    ELSE data
         IN  GoRangeLoop(IF wasAlreadySeen THEN hit
                         ELSE [hit EXCEPT !.TotalLines = @ + 1],
                         line + 1, endLine, count)

\* parseGoCoverageText: the scanner loop
RECURSIVE GoTextScan(_, _, _)
GoTextScan(st, lines, i) ==
    IF i > Len(lines) THEN st
    ELSE LET line == lines[i].go
         IN  GoTextScan(
                 IF line.form = "mode" THEN [st EXCEPT !.mode = TRUE]
                 ELSE IF line.form = "range"
                 THEN LET filePath == normalizeGoFilePath(line.file)
                          fileCoverage == IF filePath \in DOMAIN st.report
                                          THEN st.report[filePath]
                                          ELSE NewCoverageData
                      IN  [st EXCEPT !.report =
                              MapPut(st.report, filePath,
                                     GoRangeLoop(fileCoverage, line.startLine,
                                                 line.endLine, line.count))]
                 ELSE st,
                 lines, i + 1)

parseGoCoverageText(file) ==
    IF ~file.readable THEN ParseFailed
    ELSE LET st == GoTextScan([mode |-> FALSE, report |-> EmptyReport], file.lines, 1)
         IN  IF ~st.mode /\ DOMAIN st.report = {} THEN ParseFailed
             ELSE Parsed(st.report)

\* what `go tool cover -func=<file>` can do with the file: fail (no tool, no
\* file, no mode line first, a line that is no range, sources not found), or
\* print one line per function and a total
GoFunc(file, line, covered) == [file |-> file, line |-> line, covered |-> covered]

ToolFailed == [err |-> TRUE, funcs |-> <<>>]

GoToolOutcomes(file) ==
    {ToolFailed}
    \cup (IF file.readable /\ Len(file.lines) = 0
          THEN {[err |-> FALSE, funcs |-> <<>>]}
          ELSE IF /\ file.readable
                  /\ file.lines[1].kind = "mode"
                  /\ \A i \in 2..Len(file.lines) : file.lines[i].kind = "range"
          THEN {[err |-> FALSE,
                 funcs |-> IF Len(file.lines) = 1 THEN <<>>
                           ELSE <<GoFunc(<<ModulePrefix, "a.go">>, 10,
                                         \E i \in 2..Len(file.lines) :
                                             file.lines[i].go.count > 0)>>]}
          ELSE {})

\* parseGoCoverageFunc: the loop over the lines of the command's output
RECURSIVE GoFuncScan(_, _, _)
GoFuncScan(st, funcs, i) ==
    IF i > Len(funcs) THEN st
    ELSE LET filePath == normalizeGoFilePath(funcs[i].file)
             opened == IF filePath # st.currentFile
                       THEN [report |-> MapPut(st.report, filePath, NewCoverageData),
                             currentFile |-> filePath]
                       ELSE st
         IN  GoFuncScan(
                 IF funcs[i].covered
                 THEN [opened EXCEPT !.report =
                          MapPut(opened.report, filePath,
                                 RecordDA(opened.report[filePath], funcs[i].line, 1))]
                 ELSE opened,
                 funcs, i + 1)

parseGoCoverageFunc(tool) ==
    IF tool.err THEN ParseFailed
    ELSE Parsed(GoFuncScan([report |-> EmptyReport, currentFile |-> EmptyStr],
                           tool.funcs, 1).report)

\* ParseGoCoverage: the text form, then the function-level form
ParseGoCoverage(file, tool) ==
    IF ~parseGoCoverageText(file).err
    THEN [parsed |-> parseGoCoverageText(file), tried |-> <<"goText">>]
    ELSE [parsed |-> parseGoCoverageFunc(tool), tried |-> <<"goText", "goFunc">>]

\* the class loop of ParseCobertura over a decoded document
RECURSIVE CobClasses(_, _, _)
CobClasses(report, classes, i) ==
    IF i > Len(classes) THEN report
    ELSE LET filePath == NormalizePath(resolveFilePath(classes[i].Filename, {}))
             start == [data   |-> IF filePath \in DOMAIN report
                                  THEN report[filePath] ELSE NewCoverageData,
                       counts |-> NoCounts]
         IN  CobClasses(
                 MapPut(report, filePath,
                        MethodLevelLines(ClassLevelLines(start, classes[i].Lines, 1),
                                         classes[i].MethodLines, 1).data),
                 classes, i + 1)

\* xml Decode: the first element of the file has to be a coverage element
ParseCobertura(file) ==
    IF ~file.readable THEN ParseFailed
    ELSE IF ~\E i \in 1..Len(file.lines) : file.lines[i].kind = "cobertura"
    THEN ParseFailed
    ELSE LET first == CHOOSE i \in 1..Len(file.lines) :
                          /\ file.lines[i].kind = "cobertura"
                          /\ \A j \in 1..(i - 1) : file.lines[j].kind # "cobertura"
         IN  Parsed(CobClasses(EmptyReport, file.lines[first].classes, 1))

NilSuite == [isNil |-> TRUE]

Loaded(testType, parsed, tried) ==
    [err |-> FALSE, report |-> Suite(testType, parsed.report), tried |-> tried]
LoadFailed(tried) == [err |-> TRUE, report |-> NilSuite, tried |-> tried]

loadCoverageReport(file, testType, tool) ==
    LET detected == DetectCoverageFormat(
                        CoverageFile(file.readable, file.ext, DetContent(file.lines, 1)))
    IN  IF detected.err THEN LoadFailed(<<>>)
        ELSE IF detected.format = "go"
        THEN LET go == ParseGoCoverage(file, tool)
             IN  IF ~go.parsed.err THEN Loaded(testType, go.parsed, go.tried)
                 ELSE IF ParseLCOV(file).err THEN LoadFailed(go.tried \o <<"lcov">>)
                 ELSE Loaded(testType, ParseLCOV(file), go.tried \o <<"lcov">>)
        ELSE IF detected.format = "cobertura"
        THEN IF ParseCobertura(file).err THEN LoadFailed(<<"cobertura">>)
             ELSE Loaded(testType, ParseCobertura(file), <<"cobertura">>)
        ELSE IF detected.format = "lcov"
        THEN IF ParseLCOV(file).err THEN LoadFailed(<<"lcov">>)
             ELSE Loaded(testType, ParseLCOV(file), <<"lcov">>)
        ELSE LoadFailed(<<>>)

LoadIdle ==
    /\ loadPc = "idle"
    /\ loadFile = NoArtifact
    /\ loadReport = NilSuite
    /\ loadErr = FALSE
    /\ loadTried = <<>>

CallLoadCoverageReport(testType, tool) ==
    /\ loadPc = "ready"
    /\ loadPc' = "done"
    /\ \E loaded \in {loadCoverageReport(loadFile, testType, tool)} :
          /\ loadReport' = loaded.report
          /\ loadErr' = loaded.err
          /\ loadTried' = loaded.tried
    /\ UNCHANGED loadFile
    /\ UNCHANGED loadOthers

(***************************************************************************)
(* The health command: runHealth and main.                                 *)
(***************************************************************************)
\* a path flag: not given (""), or the file at the path
Flag(file) == [given |-> TRUE, file |-> file]
NoFlag     == [given |-> FALSE, file |-> NoArtifact]

\* an LCOV report of a.go with lines 6 and 7
CmdLcov(h6, h7) == Artifact(TRUE, ".info", <<ArtSF, ArtDALine(6, h6), ArtDALine(7, h7)>>)
CmdUnreadable   == Artifact(FALSE, ".info", <<>>)
CmdText         == Artifact(TRUE, ".info", <<ArtText>>)

CmdFlagSets ==
    [unitCoverage               : {NoFlag, Flag(CmdUnreadable), Flag(CmdText),
                                   Flag(CmdLcov(0, 0)), Flag(CmdLcov(1, 0)),
                                   Flag(CmdLcov(1, 1))},
     apiCoverage                : {NoFlag, Flag(CmdLcov(1, 1))},
     functionalCoverage         : {NoFlag, Flag(CmdUnreadable)},
     baselineUnitCoverage       : {NoFlag, Flag(CmdUnreadable), Flag(CmdLcov(1, 1))},
     baselineAPICoverage        : {NoFlag, Flag(CmdUnreadable)},
     baselineFunctionalCoverage : {NoFlag, Flag(CmdUnreadable)},
     thresholdNew               : {0, 100},
     thresholdModified          : {0, 100},
     outputFormat               : {"text", "yaml"}]

\* git diff fails, prints nothing, or prints a diff; writeOk is FALSE when an
\* output file is asked for and cannot be written
CmdEnvs == [gitDiff : {"err", "empty", "ok"}, writeOk : BOOLEAN]

\* the loads of one group of flags, in order, up to the first that fails
RECURSIVE LoadEach(_, _, _)
LoadEach(flags, i, reports) ==
    IF i > Len(flags) THEN [err |-> FALSE, reports |-> reports]
    ELSE IF ~flags[i].flag.given THEN LoadEach(flags, i + 1, reports)
    ELSE LET loaded == loadCoverageReport(flags[i].flag.file, flags[i].testType, ToolFailed)
         IN  IF loaded.err THEN [err |-> TRUE, reports |-> <<>>]
             ELSE LoadEach(flags, i + 1, Append(reports, loaded.report))

LoadTestReports(flags) ==
    LoadEach(<<[flag |-> flags.unitCoverage, testType |-> TestTypeUnit],
               [flag |-> flags.apiCoverage, testType |-> TestTypeAPI],
               [flag |-> flags.functionalCoverage, testType |-> TestTypeFunctional]>>,
             1, <<>>)

LoadBaselineReports(flags) ==
    LoadEach(<<[flag |-> flags.baselineUnitCoverage, testType |-> TestTypeUnit],
               [flag |-> flags.baselineAPICoverage, testType |-> TestTypeAPI],
               [flag |-> flags.baselineFunctionalCoverage,
                testType |-> TestTypeFunctional]>>,
             1, <<>>)

\* the thresholds for new and modified files default to the main threshold
DefaultThresholds(flags, t) ==
    [flags EXCEPT !.thresholdNew = IF @ = 0 THEN t ELSE @,
                  !.thresholdModified = IF @ = 0 THEN t ELSE @]

CmdIdle ==
    /\ cmdPc = "idle"
    /\ cmdFlags = [unitCoverage |-> NoFlag, apiCoverage |-> NoFlag,
                   functionalCoverage |-> NoFlag, baselineUnitCoverage |-> NoFlag,
                   baselineAPICoverage |-> NoFlag, baselineFunctionalCoverage |-> NoFlag,
                   thresholdNew |-> 0, thresholdModified |-> 0, outputFormat |-> "text"]
    /\ cmdEnv = [gitDiff |-> "err", writeOk |-> FALSE]
    /\ cmdErr = FALSE
    /\ exitCode = -1

\* runHealth returns to main, with an error or without
RunHealthReturns(err) ==
    /\ cmdPc' = "main"
    /\ cmdErr' = err
    /\ UNCHANGED exitCode

\* runHealth up to its call of AnalyzeHealth
RunHealthLoad ==
    /\ cmdPc = "start"
    /\ UNCHANGED cmdEnv
    /\ UNCHANGED <<hThreshold, aggregated, healthReport, hErr>>
    /\ UNCHANGED cmdOthers
    /\ IF /\ ~cmdFlags.unitCoverage.given
          /\ ~cmdFlags.apiCoverage.given
          /\ ~cmdFlags.functionalCoverage.given
       THEN /\ RunHealthReturns(TRUE)
            /\ UNCHANGED <<cmdFlags, hPc, testReports, baselineReports>>
       ELSE /\ cmdFlags' = DefaultThresholds(cmdFlags, hThreshold)
            /\ IF cmdEnv.gitDiff = "err"
               THEN /\ RunHealthReturns(TRUE)
                    /\ UNCHANGED <<hPc, testReports, baselineReports>>
               ELSE IF cmdEnv.gitDiff = "empty"
               THEN /\ RunHealthReturns(FALSE)
                    /\ UNCHANGED <<hPc, testReports, baselineReports>>
               ELSE IF pc = "error"
               THEN /\ RunHealthReturns(TRUE)
                    /\ UNCHANGED <<hPc, testReports, baselineReports>>
               ELSE IF ~HasChanges
               THEN /\ RunHealthReturns(FALSE)
                    /\ UNCHANGED <<hPc, testReports, baselineReports>>
               ELSE \E tests \in {LoadTestReports(cmdFlags)} :
                    \E baselines \in {LoadBaselineReports(cmdFlags)} :
                       IF tests.err \/ baselines.err
                       THEN /\ RunHealthReturns(TRUE)
                            /\ UNCHANGED <<hPc, testReports, baselineReports>>
                       ELSE /\ cmdPc' = "analyze"
                            /\ hPc' = "ready"
                            /\ testReports' = tests.reports
                            /\ baselineReports' = baselines.reports
                            /\ UNCHANGED <<cmdErr, exitCode>>

\* runHealth after AnalyzeHealth: the output, then the exit code
RunHealthReport ==
    /\ cmdPc = "analyze"
    /\ hPc = "done"
    /\ UNCHANGED <<cmdFlags, cmdEnv>>
    /\ UNCHANGED hVars
    /\ UNCHANGED cmdOthers
    /\ IF hErr # ""
       THEN RunHealthReturns(TRUE)
       ELSE IF cmdFlags.outputFormat \notin {"json", "markdown", "text"}
       THEN RunHealthReturns(TRUE)
       ELSE IF ~cmdEnv.writeOk
       THEN RunHealthReturns(TRUE)
       ELSE IF \/ healthReport.RegressingFiles > 0
               \/ PctLT(healthReport.ChangedCoverage, Whole(hThreshold))
       THEN /\ cmdPc' = "exit"
            /\ exitCode' = 1
            /\ UNCHANGED cmdErr
       ELSE RunHealthReturns(FALSE)

\* main: rootCmd.Execute() has returned
Main ==
    /\ cmdPc = "main"
    /\ cmdPc' = "exit"
    /\ exitCode' = IF cmdErr THEN 1 ELSE 0
    /\ UNCHANGED <<cmdFlags, cmdEnv, cmdErr>>
    /\ UNCHANGED hVars
    /\ UNCHANGED cmdOthers

(***************************************************************************)
(* parseGoCoverageText on profiles of overlapping ranges                   *)
(***************************************************************************)
MaxGoRecords == 3

GoProfileFile == <<ModulePrefix, "a.go">>
GoLineNos     == {10, 11}
GoCounts      == {0, 1, 3}

\* "<file>:<s>.1,<e>.9 1 <count>"
GoRecord(startLine, endLine, count) ==
    ArtifactLine("range", <<"text">>, OtherLcovLine,
                 GoLine("range", GoProfileFile, startLine, endLine, count), <<>>)

GoRecords ==
    {GoRecord(a, b, c) : a \in GoLineNos, b \in GoLineNos, c \in GoCounts}

\* a profile: the mode line, then range records
GoProfiles ==
    {Artifact(TRUE, ".out", <<ArtMode>> \o l) : l \in SeqsUpTo(GoRecords, MaxGoRecords)}

GoIdle ==
    /\ goPc = "idle"
    /\ goFile = NoArtifact
    /\ goReport = NilReport
    /\ goErr = FALSE

CallParseGoCoverageText ==
    /\ goPc = "ready"
    /\ goPc' = "done"
    /\ \E parsed \in {parseGoCoverageText(goFile)} :
          /\ goReport' = parsed.report
          /\ goErr' = parsed.err
    /\ UNCHANGED goFile
    /\ UNCHANGED goOthers

(***************************************************************************)
(* The ci and analyze commands                                             *)
(*   Both obtain the diff, parse it, stop with "No changes detected" when  *)
(*   the result has no entry, load the coverage file, call Analyze and     *)
(*   leave with exit code 1 when the threshold is not met. An error        *)
(*   returned to main is exit code 1.                                      *)
(***************************************************************************)
\* the longest diff the commands are run on
MaxGateDiffLines == 4

GateThresholds == {0, 80}
GateFormats    == {"text", "json", "xml"}

\* a Go profile of a.go, lines 10..11 executed
GateGoProfile == Artifact(TRUE, ".out", <<ArtMode, ArtRange(2)>>)

\* the coverage files the commands are run on; the unreadable one is a file
\* that is not there
GateFiles == {CmdLcov(1, 0), GateGoProfile, CmdUnreadable}

NoGateRun == [command |-> "", threshold |-> 0, file |-> NoArtifact, gitOk |-> FALSE,
              outputFormat |-> "", out |-> ""]

GateIdle ==
    /\ gatePc = "idle"
    /\ gateRun = NoGateRun
    /\ gateExit = -1

\* the first parser of the chain that returns no error, the last error otherwise
RECURSIVE FirstParsed(_, _)
FirstParsed(chain, i) ==
    IF i >= Len(chain) \/ ~chain[i].err THEN chain[i] ELSE FirstParsed(chain, i + 1)

GateDetect(file) ==
    DetectCoverageFormat(CoverageFile(file.readable, file.ext, DetContent(file.lines, 1)))

\* runCI: the switch over the detected format, with its fallbacks
ciParseCoverage(file, tool) ==
    LET detected == GateDetect(file)
    IN  IF detected.err THEN ParseFailed
        ELSE IF detected.format = "go"
        THEN FirstParsed(<<ParseGoCoverage(file, tool).parsed, ParseCobertura(file),
                           ParseLCOV(file)>>, 1)
        ELSE IF detected.format = "cobertura"
        THEN FirstParsed(<<ParseCobertura(file), ParseLCOV(file)>>, 1)
        ELSE IF detected.format = "lcov"
        THEN FirstParsed(<<ParseLCOV(file), ParseCobertura(file),
                           ParseGoCoverage(file, tool).parsed>>, 1)
        ELSE ParseFailed

\* runAnalyze: Go's format or LCOV, no fallback
analyzeParseCoverage(file, tool) ==
    LET detected == GateDetect(file)
    IN  IF detected.err THEN ParseFailed
        ELSE IF detected.format = "go" THEN ParseGoCoverage(file, tool).parsed
        ELSE ParseLCOV(file)

\* analyzer.Analyze on the parse result and a report: the totals the
\* commands read
GateAnalyze(report) ==
    LET files == DOMAIN ChangedLines
        res == [f \in files |->
                   analyzeFile(f, CHOOSE o \in Orders(ChangedLines[f]) : TRUE,
                               report, NilReport, IsNewFile(f))]
        total   == SumFn([f \in files |-> res[f].TotalChangedLines], files)
        covered == SumFn([f \in files |-> res[f].CoveredLines], files)
    IN  [TotalChangedLines  |-> total,
         CoveredLines       |-> covered,
         UncoveredLines     |-> SumFn([f \in files |-> res[f].UncoveredLines], files),
         CoveragePercentage |-> IF total > 0 THEN Pct(covered, total) ELSE ZeroPct]

\* what a run prints last and the exit code of the process
GateOutcome(out, code) == [out |-> out, code |-> code]

\* runCI and main
ciOutcome(threshold, file, tool, gitOk) ==
    IF ~file.readable THEN GateOutcome("error", 1)
    ELSE IF ~gitOk \/ scanned = 0 THEN GateOutcome("no changes", 0)
    ELSE IF pc = "error" THEN GateOutcome("error", 1)
    ELSE IF ~HasChanges THEN GateOutcome("no changes", 0)
    ELSE LET parsed == ciParseCoverage(file, tool)
         IN  IF parsed.err THEN GateOutcome("error", 1)
             ELSE IF MeetsThreshold(GateAnalyze(parsed.report), threshold)
             THEN GateOutcome("PASS", 0)
             ELSE GateOutcome("FAIL", 1)

\* runAnalyze, outputText, outputJSON and main
analyzeOutcome(threshold, file, tool, gitOk, outputFormat) ==
    IF ~gitOk \/ pc = "error" THEN GateOutcome("error", 1)
    ELSE IF ~HasChanges THEN GateOutcome("no changes", 0)
    ELSE LET parsed == analyzeParseCoverage(file, tool)
         IN  IF parsed.err THEN GateOutcome("error", 1)
             ELSE IF outputFormat = "json"
             THEN IF MeetsThreshold(GateAnalyze(parsed.report), threshold)
                  THEN GateOutcome("json", 0)
                  ELSE GateOutcome("json", 1)
             ELSE IF outputFormat = "text"
             THEN IF GateAnalyze(parsed.report).TotalChangedLines = 0
                  THEN GateOutcome("no changed lines", 0)
                  ELSE IF MeetsThreshold(GateAnalyze(parsed.report), threshold)
                  THEN GateOutcome("met", 0)
                  ELSE GateOutcome("not met", 1)
             ELSE GateOutcome("error", 1)

GateExits(command, threshold, file, gitOk, outputFormat, outcome) ==
    /\ gatePc = "ready"
    /\ pc \in {"done", "error"}
    /\ scanned <= MaxGateDiffLines
    /\ gatePc' = "exit"
    /\ gateRun' = [command |-> command, threshold |-> threshold, file |-> file,
                   gitOk |-> gitOk, outputFormat |-> outputFormat, out |-> outcome.out]
    /\ gateExit' = outcome.code
    /\ UNCHANGED gateOthers

\* difftron ci
RunCI ==
    \E threshold \in GateThresholds, file \in GateFiles, gitOk \in BOOLEAN :
        \E tool \in GoToolOutcomes(file) :
            \E outcome \in {ciOutcome(threshold, file, tool, gitOk)} :
                GateExits("ci", threshold, file, gitOk, "json", outcome)

\* difftron analyze
RunAnalyze ==
    \E threshold \in GateThresholds, file \in GateFiles, gitOk \in BOOLEAN :
        \E tool \in GoToolOutcomes(file), outputFormat \in GateFormats :
            \E outcome \in {analyzeOutcome(threshold, file, tool, gitOk, outputFormat)} :
                GateExits("analyze", threshold, file, gitOk, outputFormat, outcome)

\* the ingestion components before their first call
IngestIdle == DetIdle /\ CobIdle /\ LoadIdle /\ CmdIdle /\ GoIdle /\ GateIdle

(***************************************************************************)
(* Specifications: one per component; the other components stay idle.      *)
(***************************************************************************)
DiffNext ==
    \/ \E line \in DiffLines : ScanOldPath(line)
    \/ \E line \in DiffLines : ScanNewPath(line)
    \/ \E line \in DiffLines : ScanHunkHeader(line)
    \/ \E line \in DiffLines : ScanSkip(line)
    \/ \E line \in DiffLines : ScanBody(line)
    \/ ScanEnd

LcovNext ==
    \/ \E line \in LcovLines : LcovEmpty(line)
    \/ \E line \in LcovLines : LcovSF(line)
    \/ \E line \in LcovLines : LcovSkip(line)
    \/ \E line \in LcovLines : LcovDA(line)
    \/ \E line \in LcovLines : LcovEnd(line)
    \/ \E line \in LcovLines : LcovOther(line)
    \/ LcovScanEnd

\* the state after construction: nothing parsed yet
Init ==
    /\ DiffInit
    /\ LcovInit
    /\ AnIdle
    /\ HIdle
    /\ OnceFresh
    /\ IngestIdle

\* the analyzer is handed a parse result and the loaded reports
InitAnalyze ==
    /\ pc \in {"done", "error"}
    /\ ChangedLines \in ChangeSets
    /\ pc = "error" => ChangedLines = EmptyMap
    /\ AddedLines = ChangedLines
    /\ RemovedLines = [f \in DOMAIN ChangedLines |-> {}]
    /\ NewFiles \in SUBSET DOMAIN ChangedLines
    /\ ModifiedFiles = DOMAIN ChangedLines \ NewFiles
    /\ currentFile = EmptyStr
    /\ currentFileOldPath = EmptyStr
    /\ currentLine = 0
    /\ scanned = 0
    /\ ownPre = "none"
    /\ lastCommit = NoCommit
    /\ diffSeen = NothingSeen
    /\ inHunk = FALSE
    /\ hunkStart = 0
    /\ hunkCount = 0
    /\ hunkBase = {}
    /\ hunkAdded = {}
    /\ LcovInit
    /\ repoRootCache \in RepoRoots
    /\ OnceSettled
    /\ IngestIdle
    /\ anPc = "ready"
    /\ \/ /\ coverageReport \in AnReports \cup {NilReport}
          /\ baselineReport = NilReport
       \/ /\ coverageReport \in AnPlainReports
          /\ baselineReport \in AnReports
    /\ result = NilResult
    /\ anErr = ""
    /\ meets = NoMeets
    /\ HIdle

\* a caller holds a list of suites to merge
InitAggregate ==
    /\ DiffInit
    /\ LcovInit
    /\ AnIdle
    /\ OnceFresh
    /\ IngestIdle
    /\ hPc = "ready"
    /\ testReports \in SeqsUpTo(AggSuites, MaxSuites)
    /\ baselineReports = <<>>
    /\ hThreshold = 0
    /\ aggregated = NilReport
    /\ healthReport = NilHealthReport
    /\ hErr = ""

\* the health analysis is handed a parse result, the suites and the threshold
InitHealth ==
    /\ pc \in {"done", "error"}
    /\ ChangedLines \in HealthChangeSets
    /\ pc = "error" => ChangedLines = EmptyMap
    /\ AddedLines = ChangedLines
    /\ RemovedLines = [f \in DOMAIN ChangedLines |-> {}]
    /\ NewFiles \in SUBSET DOMAIN ChangedLines
    /\ ModifiedFiles = DOMAIN ChangedLines \ NewFiles
    /\ currentFile = EmptyStr
    /\ currentFileOldPath = EmptyStr
    /\ currentLine = 0
    /\ scanned = 0
    /\ ownPre = "none"
    /\ lastCommit = NoCommit
    /\ diffSeen = NothingSeen
    /\ inHunk = FALSE
    /\ hunkStart = 0
    /\ hunkCount = 0
    /\ hunkBase = {}
    /\ hunkAdded = {}
    /\ LcovInit
    /\ repoRootCache = <<"/", "repo">>
    /\ OnceSettled
    /\ IngestIdle
    /\ anPc = "idle"
    /\ coverageReport = NilReport
    /\ baselineReport = NilReport
    /\ result = NilResult
    /\ anErr = ""
    /\ meets = NoMeets
    /\ hPc = "ready"
    /\ testReports \in SeqsUpTo(HealthSuites, 2)
    /\ baselineReports \in SeqsUpTo(BaselineSuites, 1)
    /\ hThreshold \in Thresholds
    /\ aggregated = NilReport
    /\ healthReport = NilHealthReport
    /\ hErr = ""

AnalyzeNext ==
    \/ AnalyzeWithBaseline
    \/ \E threshold \in Thresholds : CallMeetsThreshold(threshold)

SpecDiff == Init /\ [][DiffNext]_vars

SpecLcov == Init /\ [][LcovNext]_vars

SpecAnalyze == InitAnalyze /\ [][AnalyzeNext]_vars

SpecAggregate == InitAggregate /\ [][CallAggregateCoverage]_vars

SpecHealth == InitHealth /\ [][AnalyzeHealth]_vars

\* suite reports over two files; of each file none, the first or both of the
\* lines are hit
PairReports ==
    {MkReport([f \in {FileA, FileB} |->
                  MkData([l \in HealthLineNos |-> IF l \in hit[f] THEN 1 ELSE 0])]) :
        hit \in [{FileA, FileB} -> {{}, {6}, {6, 7}}]}

PairSuites == {Suite(t, r) : t \in {TestTypeUnit, TestTypeAPI}, r \in PairReports}

PairBaselines == {Suite(TestTypeUnit, r) : r \in PairReports}

\* AnalyzeHealth on a change set of two files
InitHealthPair ==
    /\ pc = "done"
    /\ ChangedLines \in [{FileA, FileB} -> {{6}, {6, 7}}]
    /\ AddedLines = ChangedLines
    /\ RemovedLines = [f \in DOMAIN ChangedLines |-> {}]
    /\ NewFiles \in SUBSET {FileB}
    /\ ModifiedFiles = DOMAIN ChangedLines \ NewFiles
    /\ currentFile = EmptyStr
    /\ currentFileOldPath = EmptyStr
    /\ currentLine = 0
    /\ scanned = 0
    /\ ownPre = "none"
    /\ lastCommit = NoCommit
    /\ diffSeen = NothingSeen
    /\ inHunk = FALSE
    /\ hunkStart = 0
    /\ hunkCount = 0
    /\ hunkBase = {}
    /\ hunkAdded = {}
    /\ LcovInit
    /\ repoRootCache = <<"/", "repo">>
    /\ OnceSettled
    /\ IngestIdle
    /\ anPc = "idle"
    /\ coverageReport = NilReport
    /\ baselineReport = NilReport
    /\ result = NilResult
    /\ anErr = ""
    /\ meets = NoMeets
    /\ hPc = "ready"
    /\ testReports \in SeqsUpTo(PairSuites, 2) \ {<<>>}
    /\ baselineReports \in SeqsUpTo(PairBaselines, 1)
    /\ hThreshold \in Thresholds
    /\ aggregated = NilReport
    /\ healthReport = NilHealthReport
    /\ hErr = ""

SpecHealthPair == InitHealthPair /\ [][AnalyzeHealth]_vars

OnceNext ==
    \/ \E g \in Goroutines : OnceCall(g)
    \/ \E g \in Goroutines : OnceFast(g)
    \/ \E g \in Goroutines : OnceLock(g)
    \/ \E g \in Goroutines : \E outcome \in GitOutcomes : OnceRun(g, outcome)
    \/ \E g \in Goroutines : OnceStore(g)
    \/ \E g \in Goroutines : OnceReturn(g)

SpecOnce == Init /\ [][OnceNext]_vars

\* DetectCoverageFormat on any file
InitDetect ==
    /\ DiffInit
    /\ LcovInit
    /\ AnIdle
    /\ HIdle
    /\ OnceFresh
    /\ detPc = "ready"
    /\ detFile \in DetFiles
    /\ detFormat = ""
    /\ detErr = FALSE
    /\ CobIdle
    /\ LoadIdle
    /\ CmdIdle
    /\ GoIdle
    /\ GateIdle

SpecDetect == InitDetect /\ [][CallDetectCoverageFormat]_vars

\* ParseCobertura on any decoded document
InitCob ==
    /\ DiffInit
    /\ LcovInit
    /\ AnIdle
    /\ HIdle
    /\ OnceFresh
    /\ DetIdle
    /\ cobPc = "scan"
    /\ cobSources \in CobSourceSets
    /\ cobReport = EmptyReport
    /\ cobClasses = 0
    /\ cobListed = EmptyMap
    /\ cobCounted = EmptyMap
    /\ LoadIdle
    /\ CmdIdle
    /\ GoIdle
    /\ GateIdle

CobNext ==
    \/ \E class \in CobClassElements : CobClassStep(class)
    \/ CobEnd

SpecCob == InitCob /\ [][CobNext]_vars

\* loadCoverageReport on any artifact
InitLoad ==
    /\ DiffInit
    /\ LcovInit
    /\ AnIdle
    /\ HIdle
    /\ OnceFresh
    /\ DetIdle
    /\ CobIdle
    /\ loadPc = "ready"
    /\ loadFile \in Artifacts
    /\ loadReport = NilSuite
    /\ loadErr = FALSE
    /\ loadTried = <<>>
    /\ CmdIdle
    /\ GoIdle
    /\ GateIdle

LoadNext ==
    \E testType \in {TestTypeUnit, TestTypeAPI} :
        \E tool \in GoToolOutcomes(loadFile) : CallLoadCoverageReport(testType, tool)

SpecLoad == InitLoad /\ [][LoadNext]_vars

\* the health command with any flags, on any diff
InitCmd ==
    /\ cmdPc = "start"
    /\ cmdFlags \in CmdFlagSets
    /\ cmdEnv \in CmdEnvs
    /\ cmdErr = FALSE
    /\ exitCode = -1
    /\ IF cmdEnv.gitDiff = "ok"
       THEN /\ pc \in {"done", "error"}
            /\ ChangedLines \in HealthChangeSets
            /\ pc = "error" => ChangedLines = EmptyMap
            /\ AddedLines = ChangedLines
            /\ RemovedLines = [f \in DOMAIN ChangedLines |-> {}]
            /\ NewFiles \in SUBSET DOMAIN ChangedLines
            /\ ModifiedFiles = DOMAIN ChangedLines \ NewFiles
            /\ currentFile = EmptyStr
            /\ currentFileOldPath = EmptyStr
            /\ currentLine = 0
            /\ scanned = 0
            /\ ownPre = "none"
            /\ lastCommit = NoCommit
            /\ diffSeen = NothingSeen
            /\ inHunk = FALSE
            /\ hunkStart = 0
            /\ hunkCount = 0
            /\ hunkBase = {}
            /\ hunkAdded = {}
       ELSE DiffInit
    /\ LcovInit
    /\ repoRootCache = <<"/", "repo">>
    /\ OnceSettled
    /\ DetIdle
    /\ CobIdle
    /\ LoadIdle
    /\ GoIdle
    /\ GateIdle
    /\ anPc = "idle"
    /\ coverageReport = NilReport
    /\ baselineReport = NilReport
    /\ result = NilResult
    /\ anErr = ""
    /\ meets = NoMeets
    /\ hPc = "idle"
    /\ testReports = <<>>
    /\ baselineReports = <<>>
    /\ hThreshold \in Thresholds
    /\ aggregated = NilReport
    /\ healthReport = NilHealthReport
    /\ hErr = ""

CmdNext ==
    \/ RunHealthLoad
    \/ AnalyzeHealth
    \/ RunHealthReport
    \/ Main

SpecCmd == InitCmd /\ [][CmdNext]_vars

\* parseGoCoverageText on any profile
InitGo ==
    /\ DiffInit
    /\ LcovInit
    /\ AnIdle
    /\ HIdle
    /\ OnceFresh
    /\ DetIdle
    /\ CobIdle
    /\ LoadIdle
    /\ CmdIdle
    /\ goPc = "ready"
    /\ goFile \in GoProfiles
    /\ goReport = NilReport
    /\ goErr = FALSE
    /\ GateIdle

SpecGo == InitGo /\ [][CallParseGoCoverageText]_vars

\* the diffs the commands are run on
GateDiffLines == {PreLine(FileA), PostLine(FileA), HunkLine(5), AddedLine,
                  RemovedLine, ContextLine}

\* a run of ci or analyze: ParseGitDiff scans the diff, then the command
\* goes on with the result
InitGate ==
    /\ DiffInit
    /\ LcovInit
    /\ AnIdle
    /\ HIdle
    /\ OnceFresh
    /\ DetIdle
    /\ CobIdle
    /\ LoadIdle
    /\ CmdIdle
    /\ GoIdle
    /\ gatePc = "ready"
    /\ gateRun = NoGateRun
    /\ gateExit = -1

GateNext ==
    \/ \E line \in GateDiffLines : ScanOldPath(line)
    \/ \E line \in GateDiffLines : ScanNewPath(line)
    \/ \E line \in GateDiffLines : ScanHunkHeader(line)
    \/ \E line \in GateDiffLines : ScanSkip(line)
    \/ \E line \in GateDiffLines : ScanBody(line)
    \/ ScanEnd
    \/ RunCI
    \/ RunAnalyze

SpecGate == InitGate /\ [][GateNext]_vars

(***************************************************************************)
(* Claims about ParseGitDiff                                               *)
(***************************************************************************)

\* C2: after a hunk header with post-image start S, the k-th following line that
\* is not a removed line has post-change number S + k - 1 (so the cursor is at
\* S + k - 1 after it), and the current file's changed and added sets have grown
\* by exactly the numbers of the hunk's added lines.
C2_HunkLineNumbers ==
    (pc = "scan" /\ inHunk /\ currentFile # EmptyStr) =>
        /\ currentLine = hunkStart + hunkCount - 1
        /\ Lookup(ChangedLines, currentFile) = hunkBase \cup hunkAdded
        /\ Lookup(AddedLines, currentFile) = hunkBase \cup hunkAdded

\* C3: a committed file whose own block's pre-image marker is "--- /dev/null" is
\* classified new, and one whose own pre-image marker names a path is classified
\* modified, whatever blocks came before.
C3_OwnPreImageClassifies ==
    /\ lastCommit.pre = "null" => lastCommit.class = "new"
    /\ lastCommit.pre = "path" => lastCommit.class = "modified"

\* C4: every file with an entry in the result is flagged as exactly one of
\* new file / modified file.
C4_ExactlyOneFlag ==
    \A f \in DOMAIN ChangedLines : (f \in NewFiles) # (f \in ModifiedFiles)

\* C12: the parse fails (error, nil result) when it has read a hunk header with
\* a non-numeric numeric field, and only then: every other malformed line is
\* skipped and the scan goes on.
C12_BadHeaderIsFatal ==
    /\ diffSeen.badHeader => pc = "error"
    /\ pc = "error" =>
          /\ diffSeen.badHeader
          /\ ChangedLines = EmptyMap /\ AddedLines = EmptyMap /\ RemovedLines = EmptyMap
          /\ NewFiles = {} /\ ModifiedFiles = {}

\* the files whose hunks held removed lines and no added line
OnlyDeletions ==
    {f \in DOMAIN diffSeen.body :
        "removed" \in diffSeen.body[f] /\ "added" \notin diffSeen.body[f]}

\* C13: a file whose hunks contain only removed lines (with or without context
\* lines) has no entry in the result: GetChangedFiles does not return it, and
\* HasChanges is false when no other file has an entry.
C13_OnlyDeletionsNoEntry ==
    pc = "done" =>
        /\ \A f \in OnlyDeletions : f \notin GetChangedFiles
        /\ GetChangedFiles \subseteq OnlyDeletions => ~HasChanges

(***************************************************************************)
(* Claims about ParseLCOV                                                  *)
(***************************************************************************)

\* C10: in every file record, TotalLines is the number of instrumented line
\* numbers recorded for the file and CoveredLines the number of those with a hit
\* count > 0, for any sequence of DA lines (malformed ones skipped).
C10_TotalsCountLines ==
    \A p \in DOMAIN lcovReport :
        /\ lcovReport[p].TotalLines = Cardinality(DOMAIN lcovReport[p].LineHits)
        /\ lcovReport[p].CoveredLines =
              Cardinality({l \in DOMAIN lcovReport[p].LineHits :
                             lcovReport[p].LineHits[l] > 0})

(***************************************************************************)
(* Claims about the change analyzer                                        *)
(***************************************************************************)
Analysed == anPc \in {"done", "checked"} /\ pc = "done" /\ ~coverageReport.isNil

\* the set of the elements of a sequence
Range(seq) == {seq[i] : i \in DOMAIN seq}

\* the record resolved for a file: under the exact key, otherwise under the
\* normalized key
ResolvedRecord(report, file) ==
    IF ~GetCoverageForFile(report, file).isNil
    THEN GetCoverageForFile(report, file)
    ELSE GetCoverageForFile(report, NormalizePath(file))

\* the changed lines of a file with a hit count > 0 in its resolved record
ResolvedCovered(report, file) ==
    {l \in ChangedLines[file] :
        /\ ~ResolvedRecord(report, file).isNil
        /\ HitsOf(ResolvedRecord(report, file).data, l) > 0}

\* C1: a changed line is counted as covered iff the record resolved for its file
\* (exact key, otherwise normalized key) has a hit count > 0 for it; absent lines
\* and unresolved files count as uncovered, without an error; per file and
\* globally covered + uncovered = total = number of changed lines.
C1_CoveredIffResolvedRecordHit ==
    Analysed =>
        /\ ~result.isNil /\ anErr = ""
        /\ DOMAIN result.FileResults = DOMAIN ChangedLines
        /\ \A f \in DOMAIN ChangedLines :
              LET fr == result.FileResults[f]
              IN  /\ Range(fr.CoveredLineNumbers) = ResolvedCovered(coverageReport, f)
                  /\ Range(fr.UncoveredLineNumbers) =
                        ChangedLines[f] \ ResolvedCovered(coverageReport, f)
                  /\ fr.CoveredLines = Cardinality(ResolvedCovered(coverageReport, f))
                  /\ fr.TotalChangedLines = Cardinality(ChangedLines[f])
                  /\ fr.CoveredLines + fr.UncoveredLines = fr.TotalChangedLines
        /\ result.TotalChangedLines =
              SumFn([f \in DOMAIN ChangedLines |-> Cardinality(ChangedLines[f])],
                    DOMAIN ChangedLines)
        /\ result.CoveredLines + result.UncoveredLines = result.TotalChangedLines

\* C7: for a file that is not new and has a baseline record, the baseline
\* percentage is the share of the file's changed lines with a baseline hit count
\* > 0 in the record resolved for it (exact key, otherwise normalized key); for a
\* new file, a nil baseline or a file absent from the baseline it is 0; no error.
C7_BaselinePercentage ==
    Analysed =>
        /\ anErr = ""
        /\ \A f \in DOMAIN ChangedLines :
              LET fr == result.FileResults[f]
                  n  == Cardinality(ChangedLines[f])
              IN  IF /\ ~IsNewFile(f)
                     /\ ~baselineReport.isNil
                     /\ ~ResolvedRecord(baselineReport, f).isNil
                     /\ n > 0
                  THEN PctEq(fr.BaselineCoveragePercentage,
                             Pct(Cardinality(ResolvedCovered(baselineReport, f)), n))
                  ELSE PctEq(fr.BaselineCoveragePercentage, ZeroPct)

\* C8: MeetsThreshold(t) is true iff the result's CoveragePercentage >= t,
\* the boundary included.
C8_MeetsThresholdIffAtLeast ==
    meets.called =>
        (meets.ok <=> result.CoveragePercentage[1]
                         >= meets.threshold * result.CoveragePercentage[2])

C8_Witness ==
    /\ meets.called /\ meets.ok
    /\ meets.threshold = 50
    /\ result.TotalChangedLines = 2 /\ result.CoveredLines = 1

\* every analysis result: the global one, the per-file ones, the two sub-aggregates
AllResults ==
    {[total |-> result.TotalChangedLines, covered |-> result.CoveredLines,
      pct |-> result.CoveragePercentage]}
    \cup {[total |-> result.FileResults[f].TotalChangedLines,
           covered |-> result.FileResults[f].CoveredLines,
           pct |-> result.FileResults[f].CoveragePercentage] :
             f \in DOMAIN result.FileResults}
    \cup {[total |-> m.TotalChangedLines, covered |-> m.CoveredLines,
           pct |-> m.CoveragePercentage] :
             m \in {result.NewFileMetrics, result.ModifiedFileMetrics}}

InRange(p) == PctGE(p, Whole(0)) /\ PctGE(Whole(100), p) /\ p[2] > 0

\* C9 as stated: CoveragePercentage lies in [0,100] and is 0 iff
\* TotalChangedLines = 0.
C9_ZeroIffNoChangedLines ==
    Analysed =>
        \A r \in AllResults :
            /\ InRange(r.pct)
            /\ PctEq(r.pct, ZeroPct) <=> r.total = 0

\* C9 as amended: CoveragePercentage lies in [0,100] and is 0 iff no changed line
\* is covered (CoveredLines = 0), which includes TotalChangedLines = 0.
C9_ZeroIffNothingCovered ==
    Analysed =>
        \A r \in AllResults :
            /\ InRange(r.pct)
            /\ PctEq(r.pct, ZeroPct) <=> r.covered = 0
            /\ r.total = 0 => PctEq(r.pct, ZeroPct)

C9_Witness ==
    /\ Analysed
    /\ \E r \in AllResults : r.total = 2 /\ r.covered = 0 /\ PctEq(r.pct, ZeroPct)
    /\ \E r \in AllResults : r.total = 0 /\ PctEq(r.pct, ZeroPct)
    /\ \E r \in AllResults : r.total = 2 /\ r.covered = 2 /\ PctEq(r.pct, Whole(100))

(***************************************************************************)
(* Claims about the health aggregator                                      *)
(***************************************************************************)
\* the suites whose coverage report is not nil
LiveSuites == {i \in DOMAIN testReports : ~testReports[i].CoverageReport.isNil}

\* the hit counts the live suites hold for a line of a file
SuiteHits(filePath, lineNum) ==
    {GetCoverageForLine(testReports[i].CoverageReport, filePath, lineNum) : i \in LiveSuites}

\* the largest of a set of hit counts, 0 for the empty set
MaxHits(hits) == IF hits = {} THEN 0 ELSE CHOOSE h \in hits : \A g \in hits : g <= h

AllRecords ==
    {lcovReport[p] : p \in DOMAIN lcovReport}
    \cup {aggregated.FileCoverage[p] : p \in DOMAIN aggregated.FileCoverage}

\* C11: every per-file record of a report satisfies CoveredLines <= TotalLines
\* and holds no negative hit count.
C11_CoveredAtMostTotal ==
    \A r \in AllRecords :
        /\ r.CoveredLines <= r.TotalLines
        /\ \A l \in DOMAIN r.LineHits : r.LineHits[l] >= 0

\* the lists with the same elements in another order
PermutationsOf(seq) ==
    {[i \in DOMAIN seq |-> seq[o[i]]] : o \in Orders(DOMAIN seq)}

\* C14: the merged report is the same for every permutation of the suite list:
\* same files, same hit counts, same CoveredLines and same TotalLines.
C14_AggregateOrderIndependent ==
    hPc = "aggregated" =>
        \A other \in PermutationsOf(testReports) : AggregateCoverage(other) = aggregated

\* a list in ascending order
IsSorted(seq) == \A i, j \in DOMAIN seq : i < j => seq[i] < seq[j]

\* C20: every per-file result lists its covered and its uncovered line numbers
\* in ascending order, whatever order the changed-line set is ranged over.
C20_LineListsSorted ==
    Analysed =>
        \A f \in DOMAIN result.FileResults :
            /\ IsSorted(result.FileResults[f].CoveredLineNumbers)
            /\ IsSorted(result.FileResults[f].UncoveredLineNumbers)

(***************************************************************************)
(* Claims about the repository-root memoization                            *)
(***************************************************************************)
\* C19: the repository-root lookup runs at most once, no caller reads the cache
\* before the single initialization has completed, and all callers are
\* returned the same memoized value.
C19_RepoRootOnce ==
    /\ gitRuns <= 1
    /\ \A g \in Goroutines : oncePc[g] = "return" => (onceDone /\ gitRuns = 1)
    /\ \A g \in Goroutines :
          observed[g].returned => (onceDone /\ observed[g].root = repoRootCache)
    /\ \A g, h \in Goroutines :
          (observed[g].returned /\ observed[h].returned) =>
              observed[g].root = observed[h].root

\* three goroutines made their first call concurrently, one lookup ran, and
\* all three are about to return the root it found
C19_Witness ==
    /\ \A g \in Goroutines : oncePc[g] = "return" /\ onceCalls[g] = 1
    /\ gitRuns = 1
    /\ repoRootCache = <<"/", "repo">>

(***************************************************************************)
(* Claims about format detection                                           *)
(***************************************************************************)
\* C15: the format is decided by fixed priority: the LCOV file and data
\* markers give lcov; otherwise the Cobertura root and group markers give
\* cobertura; otherwise a mode: declaration gives go; otherwise the .out
\* extension gives go; otherwise lcov.  In particular content with both the
\* LCOV and the Cobertura markers is lcov.
C15_DetectPriority ==
    (detPc = "done" /\ detFile.readable) =>
        LET content == detFile.content
            trimmed == TrimSpace(content)
        IN  detFormat = IF LooksLcov(content, trimmed) THEN "lcov"
                        ELSE IF LooksCobertura(content, trimmed) THEN "cobertura"
                        ELSE IF HasPrefixTok(trimmed, "mode:") THEN "go"
                        ELSE IF detFile.ext = ".out" THEN "go"
                        ELSE "lcov"

(***************************************************************************)
(* Claims about the Cobertura parser                                       *)
(***************************************************************************)
\* C16: for each file, a line listed at class level and at method level is
\* counted once in TotalLines and at most once in CoveredLines.
C16_BothLevelsCountedOnce ==
    \A filePath \in DOMAIN cobReport :
        \A n \in cobListed[filePath].class \cap cobListed[filePath].method :
            /\ cobCounted[filePath].total[n] = 1
            /\ n \in DOMAIN cobCounted[filePath].covered =>
                   cobCounted[filePath].covered[n] = 1

\* C16 for a document that has one class element
C16_OneClassCountedOnce == cobClasses <= 1 => C16_BothLevelsCountedOnce

(***************************************************************************)
(* Claims about loading an artifact                                        *)
(***************************************************************************)
\* content no parser recognizes: text without a line any parser reads
Unrecognizable(file) ==
    /\ file.readable
    /\ Len(file.lines) >= 1
    /\ \A i \in 1..Len(file.lines) : file.lines[i].kind = "text"

\* C17: loading an artifact whose content no parser recognizes fails with an
\* error; it is not turned into a coverage report.
C17_UnrecognizedArtifactFails ==
    (loadPc = "done" /\ Unrecognizable(loadFile)) => loadErr

\* C17, the Go parser: the function-level form is tried after the line-range
\* form has failed, and its error is what the loader gets
C17_GoFallsBackToFunc ==
    (loadPc = "done" /\ Len(loadTried) >= 1 /\ loadTried[1] = "goText") =>
        ((Len(loadTried) >= 2 /\ loadTried[2] = "goFunc")
            <=> parseGoCoverageText(loadFile).err)

(***************************************************************************)
(* Claims about the health command                                         *)
(***************************************************************************)
\* the health check passed: no regression, and the changed lines, the new
\* files and the modified files each meet their threshold
ChangedLinesOf(files) ==
    SumFn([f \in files |-> healthReport.FileHealth[f].ChangedLines], files)

HealthPassed ==
    LET files    == DOMAIN healthReport.FileHealth
        newFiles == {f \in files : healthReport.FileHealth[f].IsNewFile}
    IN  /\ healthReport.RegressingFiles = 0
        /\ PctGE(healthReport.ChangedCoverage, Whole(hThreshold))
        /\ ChangedLinesOf(newFiles) > 0 =>
               PctGE(healthReport.NewFilesCoverage, Whole(cmdFlags.thresholdNew))
        /\ ChangedLinesOf(files \ newFiles) > 0 =>
               PctGE(healthReport.ModifiedFilesCoverage,
                     Whole(cmdFlags.thresholdModified))

\* C18: the health command exits 0 iff the health check passed, 1 iff a
\* threshold is not met or a regression is detected, and 2 when an error
\* occurs during the analysis.
C18_ExitCodes ==
    cmdPc = "exit" =>
        IF cmdErr THEN exitCode = 2
        ELSE IF healthReport.isNil THEN exitCode = 0
        ELSE /\ exitCode = 0 <=> HealthPassed
             /\ exitCode = 1 <=> ~HealthPassed

\* C18 without the error case
C18_PassFailExitCodes ==
    (cmdPc = "exit" /\ ~cmdErr /\ ~healthReport.isNil) =>
        /\ exitCode = 0 <=> HealthPassed
        /\ exitCode = 1 <=> ~HealthPassed

\* C18 for the main threshold and the regressions alone
C18_MainThresholdExitCodes ==
    (cmdPc = "exit" /\ ~cmdErr /\ ~healthReport.isNil) =>
        exitCode = IF /\ healthReport.RegressingFiles = 0
                      /\ PctGE(healthReport.ChangedCoverage, Whole(hThreshold))
                   THEN 0 ELSE 1

(***************************************************************************)
(* Claims about the Go profile parser                                      *)
(***************************************************************************)
\* the range records of the profile that contain a line
RangesOver(line) ==
    {i \in 1..Len(goFile.lines) :
        /\ goFile.lines[i].go.form = "range"
        /\ goFile.lines[i].go.startLine <= line
        /\ line <= goFile.lines[i].go.endLine}

\* the largest count among them, 0 when no range has a positive count
MaxCount(line) ==
    IF \E i \in RangesOver(line) : goFile.lines[i].go.count > 0
    THEN CHOOSE c \in {goFile.lines[i].go.count : i \in RangesOver(line)} :
             \A i \in RangesOver(line) : goFile.lines[i].go.count <= c
    ELSE 0

\* C23: a line is covered iff some range containing it has a positive count,
\* and its hit count is the largest count of the ranges containing it, in
\* whatever order the records appear.
C23_HitsAreMaxOverRanges ==
    (goPc = "done" /\ ~goErr) =>
        \A line \in GoLineNos :
            /\ GetCoverageForLine(goReport, FileA, line) = MaxCount(line)
            /\ IsLineCovered(goReport, FileA, line)
                   <=> \E i \in RangesOver(line) : goFile.lines[i].go.count > 0

\* line 11 lies in a range of count 1 and in a range of count 3, the smaller
\* count read last, and a range of count 0 covers it too
C23_Witness ==
    /\ goPc = "done"
    /\ ~goErr
    /\ \E i, j, k \in RangesOver(11) :
          /\ i < j
          /\ goFile.lines[i].go.count = 3
          /\ goFile.lines[j].go.count = 1
          /\ goFile.lines[k].go.count = 0
    /\ GetCoverageForLine(goReport, FileA, 11) = 3

\* C24: every line inside a range is counted once in TotalLines, whatever the
\* counts and the order of the ranges, and once in CoveredLines iff covered.
C24_LinesCountedOnce ==
    (goPc = "done" /\ ~goErr) =>
        LET lines == {l \in GoLineNos : RangesOver(l) # {}}
            data  == GetCoverageForFile(goReport, FileA)
        IN  lines # {} =>
              /\ ~data.isNil
              /\ data.data.TotalLines = Cardinality(lines)
              /\ data.data.CoveredLines =
                     Cardinality({l \in lines : IsLineCovered(goReport, FileA, l)})

\* C24 for CoveredLines alone
C24_CoveredCountedOnce ==
    (goPc = "done" /\ ~goErr) =>
        \A p \in DOMAIN goReport.FileCoverage :
            goReport.FileCoverage[p].CoveredLines =
                Cardinality({l \in GoLineNos : IsLineCovered(goReport, p, l)})

\* whether the artifact holds a mode declaration
HasModeLine(file) ==
    \E i \in 1..Len(file.lines) : file.lines[i].go.form = "mode"

\* C25: ParseGoCoverage uses the function-level form exactly when the
\* artifact holds no mode declaration.
C25_FallbackIffNoMode ==
    (loadPc = "done" /\ Len(loadTried) >= 1 /\ loadTried[1] = "goText") =>
        ((Len(loadTried) >= 2 /\ loadTried[2] = "goFunc") <=> ~HasModeLine(loadFile))

\* C25, second half: with a mode declaration the line-range result is returned
C25_ModeKeepsText ==
    (loadPc = "done" /\ Len(loadTried) >= 1 /\ loadTried[1] = "goText"
         /\ HasModeLine(loadFile)) =>
        /\ loadTried = <<"goText">>
        /\ ~loadErr
        /\ loadReport.CoverageReport = parseGoCoverageText(loadFile).report

(***************************************************************************)
(* Claims about the insights and the per-type counts of a health report    *)
(***************************************************************************)
HealthDone == hPc = "done" /\ ~healthReport.isNil

\* the insights of a category that reference a file
InsightsOn(category, file) ==
    {i \in 1..Len(healthReport.Insights) :
        /\ healthReport.Insights[i].Category = category
        /\ healthReport.Insights[i].File = file}

\* C26: the insights contain one critical regression insight for each
\* regressing file, referencing that file, and none when no file regresses.
C26_RegressionInsightPerFile ==
    HealthDone =>
        /\ \A f \in DOMAIN healthReport.FileHealth :
              healthReport.FileHealth[f].HasRegression =>
                  /\ Cardinality(InsightsOn("regression", f)) = 1
                  /\ \A i \in InsightsOn("regression", f) :
                        healthReport.Insights[i].Severity = "critical"
        /\ (\A f \in DOMAIN healthReport.FileHealth :
                 ~healthReport.FileHealth[f].HasRegression)
              => \A i \in 1..Len(healthReport.Insights) :
                     healthReport.Insights[i].Category # "regression"

\* C26, last part: no regression insight when no file regresses, and one
\* critical insight carrying the number of regressing files otherwise
C26_RegressionInsightAggregated ==
    HealthDone =>
        LET regressing == {f \in DOMAIN healthReport.FileHealth :
                              healthReport.FileHealth[f].HasRegression}
            found == {i \in 1..Len(healthReport.Insights) :
                         healthReport.Insights[i].Category = "regression"}
        IN  /\ regressing = {} => found = {}
            /\ regressing # {} =>
                  /\ Cardinality(found) = 1
                  /\ \A i \in found :
                        /\ healthReport.Insights[i].Severity = "critical"
                        /\ healthReport.Insights[i].Count = Cardinality(regressing)
                        /\ healthReport.Insights[i].File = EmptyStr

\* the test types of which some suite has hits on a changed line of the file
CoveringTypes(f) ==
    {t \in HealthTypes :
        \E i \in 1..Len(testReports) :
            /\ testReports[i].TestType = t
            /\ ~testReports[i].CoverageReport.isNil
            /\ ~SuiteFileCoverage(testReports[i], f).isNil
            /\ \E l \in ChangedLines[f] :
                  HitsOf(SuiteFileCoverage(testReports[i], f).data, l) > 0}

\* C27: a file has a gap insight iff it has uncovered changed lines and its
\* changed lines are covered by suites of at most one type.
C27_GapInsightIffAtMostOneType ==
    HealthDone =>
        \A f \in DOMAIN healthReport.FileHealth :
            InsightsOn("test-gap", f) # {}
                <=> (/\ healthReport.FileHealth[f].ChangedUncoveredLines > 0
                     /\ Cardinality(CoveringTypes(f)) <= 1)

\* C27, the direction the rule pass keeps: no gap insight without uncovered
\* changed lines
C27_NoGapWithoutUncovered ==
    HealthDone =>
        \A f \in DOMAIN healthReport.FileHealth :
            healthReport.FileHealth[f].ChangedUncoveredLines = 0
                => InsightsOn("test-gap", f) = {}

\* C29: per file, each per-type count of covered changed lines is at most the
\* covered changed-line count, which is at most the changed-line count, and
\* each per-type percentage lies in [0,100].
C29_TypeCountsBounded ==
    HealthDone =>
        \A f \in DOMAIN healthReport.FileHealth :
            LET fh == healthReport.FileHealth[f]
            IN  /\ fh.ChangedCoveredLines <= fh.ChangedLines
                /\ \A n \in {fh.ChangedLinesCoveredByUnit, fh.ChangedLinesCoveredByAPI,
                              fh.ChangedLinesCoveredByFunctional} :
                      0 <= n /\ n <= fh.ChangedCoveredLines
                /\ \A q \in {fh.UnitTestCoverage, fh.APITestCoverage,
                              fh.FunctionalTestCoverage} :
                      PctGE(q, ZeroPct) /\ PctGE(Whole(100), q)

\* C29, the part that does hold: covered changed lines never exceed changed lines
C29_CoveredWithinChanged ==
    HealthDone =>
        \A f \in DOMAIN healthReport.FileHealth :
            /\ 0 <= healthReport.FileHealth[f].ChangedCoveredLines
            /\ healthReport.FileHealth[f].ChangedCoveredLines
                   <= healthReport.FileHealth[f].ChangedLines

(***************************************************************************)
(* AnalyzeHealth against AnalyzeWithBaseline on the merged coverage        *)
(***************************************************************************)
\* the FileResult analyzeFile gives for a changed file on the merged current
\* and baseline coverage
MergedFileResult(f, order) ==
    analyzeFile(f, order, AggregateCoverage(testReports),
                AggregateCoverage(baselineReports), IsNewFile(f))

\* C22: each file's changed-line count, covered and uncovered counts, changed
\* percentage and baseline changed percentage, and the global sums, are those
\* of AnalyzeWithBaseline(changeSet, AggregateCoverage(suites),
\* AggregateCoverage(baselineSuites)).
C22_HealthMetricsMatchAnalyzer ==
    HealthDone =>
        LET files == DOMAIN ChangedLines
            res == [f \in files |->
                       MergedFileResult(f, CHOOSE o \in Orders(ChangedLines[f]) : TRUE)]
            total   == SumFn([f \in files |-> res[f].TotalChangedLines], files)
            covered == SumFn([f \in files |-> res[f].CoveredLines], files)
        IN  /\ DOMAIN healthReport.FileHealth = files
            /\ \A f \in files :
                  LET fh == healthReport.FileHealth[f]
                  IN  /\ fh.ChangedLines = res[f].TotalChangedLines
                      /\ fh.ChangedCoveredLines = res[f].CoveredLines
                      /\ fh.ChangedUncoveredLines = res[f].UncoveredLines
                      /\ fh.ChangedCoveragePercentage = res[f].CoveragePercentage
                      /\ fh.BaselineCoveragePercentage = res[f].BaselineCoveragePercentage
            /\ healthReport.ChangedLines = total
            /\ healthReport.ChangedCoveredLines = covered
            /\ healthReport.ChangedUncoveredLines =
                   SumFn([f \in files |-> res[f].UncoveredLines], files)
            /\ healthReport.ChangedCoverage =
                   (IF total > 0 THEN Pct(covered, total) ELSE ZeroPct)

\* two suites, the first with hits on line 6 only and the second on lines 6
\* and 7, a baseline with hits on line 6: both changed lines covered on the
\* merged coverage, baseline 50%
C22_Witness ==
    /\ HealthDone
    /\ DotA \in DOMAIN ChangedLines /\ ChangedLines[DotA] = {6, 7}
    /\ DotA \notin NewFiles
    /\ Len(testReports) = 2
    /\ GetCoverageForLine(testReports[1].CoverageReport, FileA, 6) > 0
    /\ GetCoverageForLine(testReports[1].CoverageReport, FileA, 7) = 0
    /\ GetCoverageForLine(testReports[2].CoverageReport, FileA, 6) > 0
    /\ GetCoverageForLine(testReports[2].CoverageReport, FileA, 7) > 0
    /\ Len(baselineReports) = 1
    /\ healthReport.FileHealth[DotA].ChangedCoveredLines = 2
    /\ PctEq(healthReport.FileHealth[DotA].BaselineCoveragePercentage, Whole(50))
    /\ healthReport.ChangedCoveredLines = 2

(***************************************************************************)
(* Claims about the order of insights and recommendations                  *)
(***************************************************************************)
\* C21: the Insights and the Recommendations of a health report are fixed by
\* the change set, the suites, the baseline and the threshold: whatever order
\* the file records are ranged over, the same lists come out, in the same
\* order.
C21_InsightsDeterministic ==
    HealthDone =>
        \A order \in Orders(DOMAIN ChangedLines) :
            /\ healthReport.Insights =
                   generateInsights(healthReport.FileHealth, healthReport.ChangedCoverage,
                                    hThreshold, order).Insights
            /\ healthReport.Recommendations =
                   generateRecommendations(healthReport.FileHealth, hThreshold, order)

\* the elements of a list
Elems(q) == {q[i] : i \in 1..Len(q)}

\* C21 up to order: the same insights, and the same recommendations with the
\* same files, come out of every run
C21_DeterministicUpToOrder ==
    HealthDone =>
        \A order \in Orders(DOMAIN ChangedLines) :
            LET ins  == generateInsights(healthReport.FileHealth,
                                         healthReport.ChangedCoverage,
                                         hThreshold, order).Insights
                recs == generateRecommendations(healthReport.FileHealth, hThreshold, order)
            IN  /\ Len(ins) = Len(healthReport.Insights)
                /\ Elems(ins) = Elems(healthReport.Insights)
                /\ Len(recs) = Len(healthReport.Recommendations)
                /\ \A i \in 1..Len(recs) :
                      /\ recs[i].Category = healthReport.Recommendations[i].Category
                      /\ recs[i].Priority = healthReport.Recommendations[i].Priority
                      /\ Elems(recs[i].Files) =
                             Elems(healthReport.Recommendations[i].Files)

\* the recommendations of a category that list a file
RecsOn(category, f) ==
    {i \in 1..Len(healthReport.Recommendations) :
        /\ healthReport.Recommendations[i].Category = category
        /\ \E k \in 1..Len(healthReport.Recommendations[i].Files) :
              healthReport.Recommendations[i].Files[k] = f}

\* every file that needs attention is in exactly one recommendation,
\* fix-regression if it regresses and add-tests otherwise; the others in none
RecommendationMembership ==
    \A f \in DOMAIN healthReport.FileHealth :
        LET fh == healthReport.FileHealth[f]
            fix == Cardinality(RecsOn("fix-regression", f))
            add == Cardinality(RecsOn("add-tests", f))
        IN  /\ (fh.NeedsAttention /\ fh.HasRegression) => (fix = 1 /\ add = 0)
            /\ (fh.NeedsAttention /\ ~fh.HasRegression) => (fix = 0 /\ add = 1)
            /\ ~fh.NeedsAttention => (fix = 0 /\ add = 0)

\* C28: membership as above, and when both recommendations are produced the
\* fix-regression recommendation comes before the add-tests recommendation.
C28_RegressionRecommendedFirst ==
    HealthDone =>
        /\ RecommendationMembership
        /\ \A i, j \in 1..Len(healthReport.Recommendations) :
              (/\ healthReport.Recommendations[i].Category = "fix-regression"
               /\ healthReport.Recommendations[j].Category = "add-tests") => i < j

\* C28, membership and priority labels alone
C28_MembershipAndLabels ==
    HealthDone =>
        /\ RecommendationMembership
        /\ \A i \in 1..Len(healthReport.Recommendations) :
              /\ healthReport.Recommendations[i].Category = "fix-regression"
                    => healthReport.Recommendations[i].Priority = "critical"
              /\ healthReport.Recommendations[i].Category = "add-tests"
                    => healthReport.Recommendations[i].Priority = "high"

(***************************************************************************)
(* Claims about the quality gate                                           *)
(***************************************************************************)
\* a run on a diff that was read and parsed, with a coverage file that is there
GateRan ==
    /\ gatePc = "exit"
    /\ pc = "done"
    /\ gateRun.gitOk
    /\ gateRun.file.readable
    /\ gateRun.outputFormat \in {"text", "json"}

\* the parsed diff holds no added line
NoAddedLines == \A f \in DOMAIN ChangedLines : ChangedLines[f] = {}

\* C30: when the parsed diff contributes no changed (added) line, ci and
\* analyze (text and JSON) exit with code 0, whatever the threshold.
C30_NothingAddedExitsZero ==
    (GateRan /\ NoAddedLines) => gateExit = 0

\* C30 where the result has no entry at all, and for analyze's text output
C30_NoEntryExitsZero ==
    (GateRan /\ NoAddedLines
        /\ (~HasChanges \/ (gateRun.command = "analyze" /\ gateRun.outputFormat = "text")))
        => gateExit = 0

====
